---- MODULE Spec2Model ----
(***************************************************************************)
(* A model of the caching HTTP proxy in src/docker_deploy/web_proxy:       *)
(* the sharded cache (cache.hpp), the client and remote half-connections   *)
(* (connection.cpp) and the parts of the parser and cache-control          *)
(* evaluator (http.cpp) that decide what is cached and what is served.     *)
(*                                                                         *)
(* Strings are atomic in TLC, so the lexical functions of the program      *)
(* (canonicalize, parse_date, the comma split of Cache-Control, HttpUrl)   *)
(* are given as finite tables over the header spellings, dates, directive  *)
(* lists and URLs that the inputs of the model use.                        *)
(***************************************************************************)
EXTENDS Integers, Sequences, FiniteSets, TLC

\* ---------------------------------------------------------------- bounds

\* Number of buckets of the cache (the Server's cache_size argument).
CacheSize == 2
\* The clock runs from 0 to MaxTime seconds.
MaxTime == 1
\* At most MaxId requests are read in a run (ids 1..MaxId).
MaxId == 3
\* The tasks of the cache test make at most MaxCalls set calls.
MaxCalls == 3

\* Client connections accepted by the server.
Clients == {1, 2}

\* ------------------------------------------------------- program constants

MAX_CACHEABLE_BODYSIZE == 2 * 1024 * 1024

NULL == 0

\* ------------------------------------------------------------ messages

NoMessage == [startLine |-> <<"", "", "">>, headerLines |-> <<>>,
              body |-> [data |-> "", size |-> 0]]

HTTP200 == [startLine |-> <<"HTTP/1.1", "200", "OK">>, headerLines |-> <<>>,
            body |-> [data |-> "", size |-> 0]]

HTTP400 == [startLine |-> <<"HTTP/1.1", "400", "Invalid Request">>,
            headerLines |-> <<[key |-> "Content-Length", value |-> "0"]>>,
            body |-> [data |-> "", size |-> 0]]

HTTP502 == [startLine |-> <<"HTTP/1.1", "502", "Bad Gateway">>,
            headerLines |-> <<[key |-> "Content-Length", value |-> "0"]>>,
            body |-> [data |-> "", size |-> 0]]

\* ------------------------------------------------------- lexical tables

\* HttpParser::canonicalize on the header names the inputs use: the first
\* letter of each alphabetic run in upper case, the others in lower case.
CanonTable ==
    ( "host" :> "Host" @@ "cache-control" :> "Cache-Control"
   @@ "ETag" :> "Etag" @@ "content-length" :> "Content-Length"
   @@ "DATE" :> "Date" @@ "if-none-match" :> "If-None-Match" )

canonicalize(s) == IF s \in DOMAIN CanonTable THEN CanonTable[s] ELSE s

\* HttpParser::parse_date: IMF-fixdate strings and the second they denote;
\* every other string raises ParseError.
DateTable ==
    ( "Thu, 01 Jan 1970 00:00:00 GMT" :> 0
   @@ "Thu, 01 Jan 1970 00:00:01 GMT" :> 1
   @@ "Thu, 01 Jan 1970 00:00:02 GMT" :> 2 )

parse_date_ok(s) == s \in DOMAIN DateTable
parse_date(s) == DateTable[s]

\* operator<<(ostream&, time_point): the formatted date of a time point.
put_date(t) ==
    IF \E s \in DOMAIN DateTable : DateTable[s] = t
    THEN CHOOSE s \in DOMAIN DateTable : DateTable[s] = t
    ELSE "(date)"

\* HttpParser::parseDeltaSeconds: try_lexical_convert to uint32_t.
DeltaTable ==
    ( "0" :> 0 @@ "1" :> 1 @@ "2" :> 2 @@ "100" :> 100 @@ "86400" :> 86400 )

parseDeltaSeconds_ok(s) == s \in DOMAIN DeltaTable
parseDeltaSeconds(s) == DeltaTable[s]

\* std::getline(ss >> std::ws, field, ','): the fields of a Cache-Control
\* value, each a directive name and the text after its '='.
Dir(name, arg) == [name |-> name, arg |-> arg]

FieldTable ==
    ( "" :> <<>>
   @@ "no-cache" :> << Dir("no-cache", "") >>
   @@ "no-store" :> << Dir("no-store", "") >>
   @@ "private" :> << Dir("private", "") >>
   @@ "max-age=0" :> << Dir("max-age=", "0") >>
   @@ "max-age=1" :> << Dir("max-age=", "1") >>
   @@ "max-age=2" :> << Dir("max-age=", "2") >>
   @@ "max-age=4294967296" :> << Dir("max-age=", "4294967296") >>
   @@ "s-maxage=2" :> << Dir("s-maxage=", "2") >>
   @@ "s-maxage=2, max-age=1" :>
          << Dir("s-maxage=", "2"), Dir("max-age=", "1") >>
   @@ "max-age=1, s-maxage=2" :>
          << Dir("max-age=", "1"), Dir("s-maxage=", "2") >>
   @@ "s-maxage=x, max-age=1" :>
          << Dir("s-maxage=", "x"), Dir("max-age=", "1") >>
   @@ "s-maxage=2, max-age=0" :>
          << Dir("s-maxage=", "2"), Dir("max-age=", "0") >>
   @@ "no-cache, max-age=2" :>
          << Dir("no-cache", ""), Dir("max-age=", "2") >>
   @@ "no-cache, no-store, s-maxage=86400, max-age=100" :>
          << Dir("no-cache", ""), Dir("no-store", ""),
             Dir("s-maxage=", "86400"), Dir("max-age=", "100") >> )

Fields(cache_control) ==
    IF cache_control \in DOMAIN FieldTable
    THEN FieldTable[cache_control] ELSE << Dir(cache_control, "") >>

\* std::hash<std::string>: an arbitrary fixed function of the key.
HashTable ==
    ( "http://a/x" :> 2 @@ "http://b/y" :> 4 @@ "http://c/z" :> 7
   @@ "/x" :> 3 @@ "/y" :> 5 @@ "/z" :> 8 @@ "" :> 0 )

hasher(key) == IF key \in DOMAIN HashTable THEN HashTable[key] ELSE 1

\* HttpUrl::HttpUrl on the request-URIs the inputs use.
Url(protocol, host, port, path) ==
    [protocol |-> protocol, host |-> host, port |-> port, path |-> path]

UrlTable ==
    ( "http://a/x" :> Url("HTTP", "a", "80", "/x")
   @@ "http://b/y" :> Url("HTTP", "b", "80", "/y")
   @@ "http://c/z" :> Url("HTTP", "c", "80", "/z")
   @@ "a:443" :> Url("NONE", "a", "443", "/") )

HttpUrl(url) == UrlTable[url]

\* std::istringstream >> size_t on a Content-Length value.
SizeTable == ( "0" :> 0 @@ "3" :> 3
            @@ "2097152" :> 2097152 @@ "2097153" :> 2097153 )

\* The Transfer-Encoding values in which std::string::find finds "chunked".
ContainsChunked == {"chunked", "gzip, chunked"}

\* std::string::size and the first character of a status code.
StatusTable ==
    ( "200" :> [size |-> 3, first |-> "2"] @@ "304" :> [size |-> 3, first |-> "3"]
   @@ "404" :> [size |-> 3, first |-> "4"] @@ "204" :> [size |-> 3, first |-> "2"]
   @@ "100" :> [size |-> 3, first |-> "1"] @@ "20" :> [size |-> 2, first |-> "2"]
   @@ "199" :> [size |-> 3, first |-> "1"] )

StatusInfo(status) ==
    IF status \in DOMAIN StatusTable THEN StatusTable[status]
    ELSE [size |-> 0, first |-> ""]

\* ------------------------------------------------------------- parser

\* A message on the wire: the start line split at its first two spaces
\* (fewer than three fields when it has fewer than two spaces), the header
\* lines with the separator that follows the name (":" when well formed,
\* " " for a space before the colon, "" for no colon), and the body bytes.
Wire(startLine, headers, body) ==
    [startLine |-> startLine, headers |-> headers, body |-> body]

WH(name, value) == [name |-> name, value |-> value, sep |-> ":"]

NoBody == [data |-> "", size |-> 0]

\* HttpParser as constructed: state START, format PLAIN, contentLength 0.
NewParser ==
    [state |-> "START", format |-> "PLAIN", contentLength |-> 0,
     error |-> ""]

\* HttpParser::reset: clears the message and sets state; format and
\* contentLength keep their values.
reset(parser) == [parser EXCEPT !.state = "START", !.error = ""]

\* HttpParser::putStartLine.
putStartLine(parser, message, w) ==
    IF Len(w.startLine) < 3
    THEN [parser |-> [parser EXCEPT
                         !.error = "Invalid start line (need 3 fields)"],
          message |-> message]
    ELSE [parser |-> [parser EXCEPT !.state = "HEADER"],
          message |-> [message EXCEPT !.startLine =
                          <<w.startLine[1], w.startLine[2], w.startLine[3]>>]]

\* HttpParser::putHeader on one non-empty header line.
putHeader(parser, message, h) ==
    IF h.sep = ""
    THEN [parser |-> [parser EXCEPT
                         !.error = "Invalid header line (no colon)"],
          message |-> message]
    ELSE IF h.sep = " "
    THEN [parser |-> [parser EXCEPT
                   !.error = "Invalid header line (space before colon)"],
          message |-> message]
    ELSE LET key == canonicalize(h.name)
             m1 == [message EXCEPT !.headerLines =
                       Append(@, [key |-> key, value |-> h.value])]
         IN  IF key = "Content-Length"
             THEN IF h.value \in DOMAIN SizeTable
                  THEN [parser |-> [parser EXCEPT !.format = "LENGTH",
                                      !.contentLength = SizeTable[h.value]],
                        message |-> m1]
                  ELSE [parser |-> [parser EXCEPT !.contentLength = 0],
                        message |-> m1]
             ELSE IF key = "Transfer-Encoding" /\ h.value \in ContainsChunked
             THEN [parser |-> [parser EXCEPT !.format = "CHUNKED"],
                   message |-> m1]
             ELSE [parser |-> parser, message |-> m1]

RECURSIVE putHeaders(_, _, _)
putHeaders(parser, message, lines) ==
    IF lines = <<>> \/ parser.error # ""
    THEN [parser |-> parser, message |-> message]
    ELSE LET r == putHeader(parser, message, Head(lines))
         IN  putHeaders(r.parser, r.message, Tail(lines))

IsHttp(protocol) == protocol \in {"HTTP/1.0", "HTTP/1.1"}

\* A hasBody that takes a request with any Content-Length to have a body.
hasBody_anyLength(parser, message) ==
    IF IsHttp(message.startLine[1])
    THEN IF StatusInfo(message.startLine[2]).size # 3 THEN "throw"
         ELSE IF StatusInfo(message.startLine[2]).first = "1"
                 \/ message.startLine[2] \in {"204", "304"}
              THEN "no" ELSE "yes"
    ELSE IF parser.format \in {"LENGTH", "CHUNKED"} THEN "yes" ELSE "no"

\* HttpParser::hasBody, with "throw" for the ParseError of a status code
\* that is not three characters long.
hasBody(parser, message) ==
    IF IsHttp(message.startLine[1])
    THEN IF StatusInfo(message.startLine[2]).size # 3 THEN "throw"
         ELSE IF StatusInfo(message.startLine[2]).first = "1"
                 \/ message.startLine[2] \in {"204", "304"}
              THEN "no" ELSE "yes"
    ELSE IF (parser.format = "LENGTH" /\ parser.contentLength > 0)
            \/ parser.format = "CHUNKED"
         THEN "yes" ELSE "no"

\* The on_read_header chain of one message: the start line, the header
\* lines and the empty line that ends them (HttpParser::parseStep in
\* states START and HEADER).
parseHead(parser, message, w) ==
    LET s == putStartLine(parser, message, w)
        h == IF s.parser.error # "" THEN s
             ELSE putHeaders(s.parser, s.message, w.headers)
        b == hasBody(h.parser, h.message)
    IN  IF h.parser.error # "" THEN h
        ELSE IF b = "throw"
        THEN [parser |-> [h.parser EXCEPT !.error = "Invalid status code"],
              message |-> h.message]
        ELSE [parser |-> [h.parser EXCEPT !.state =
                             IF b = "yes" THEN "BODY" ELSE "ACCEPT"],
              message |-> h.message]

\* ------------------------------------------------ cache-control evaluator

\* boost::optional<time_point>: <<>> when empty, <<t>> when set.
None == <<>>
Some(t) == <<t>>

\* The value an uninitialized std::chrono duration may hold.
Indeterminate == {0, 100}

\* Integer division of durations (truncation toward zero).
quot(a, b) == IF a >= 0 THEN a \div b ELSE -((-a) \div b)

max(a, b) == IF a >= b THEN a ELSE b

\* A default-initialized ResponseCacheInfo (connection.cpp, "ResponseCacheInfo
\* ci;"): the optional and the string are empty, the durations, time points
\* and flags hold whatever was in memory (garbage for freshness_lifetime).
NewResponseCacheInfo(garbage) ==
    [date_value |-> 0, request_time |-> 0, response_time |-> 0,
     last_modified |-> None, corrected_initial_age |-> 0,
     freshness_lifetime |-> garbage, etag |-> "",
     no_cache |-> FALSE, no_store |-> FALSE, private_ |-> FALSE]

\* The header loop of HttpParser::parseResponseCacheInfo: the fields it
\* collects, a later header of the same name replacing an earlier one and a
\* field that fails to parse leaving the collected value as it was.
RECURSIVE collectResponseFields(_, _)
collectResponseFields(lines, acc) ==
    IF lines = <<>> THEN acc
    ELSE LET h == Head(lines)
             a == IF h.key = "Age"
                  THEN IF parseDeltaSeconds_ok(h.value)
                       THEN [acc EXCEPT !.age_value = parseDeltaSeconds(h.value)]
                       ELSE acc
                  ELSE IF h.key = "Cache-Control"
                  THEN [acc EXCEPT !.cache_control = h.value]
                  ELSE IF h.key = "Date"
                  THEN IF parse_date_ok(h.value)
                       THEN [acc EXCEPT !.date_value = Some(parse_date(h.value))]
                       ELSE acc
                  ELSE IF h.key = "Etag"
                  THEN [acc EXCEPT !.etag = h.value]
                  ELSE IF h.key = "Expires"
                  THEN IF parse_date_ok(h.value)
                       THEN [acc EXCEPT !.expires = Some(parse_date(h.value))]
                       ELSE acc
                  ELSE IF h.key = "Last-Modified"
                  THEN IF parse_date_ok(h.value)
                       THEN [acc EXCEPT
                               !.last_modified = Some(parse_date(h.value))]
                       ELSE acc
                  ELSE acc
         IN  collectResponseFields(Tail(lines), a)

\* The loop of HttpParser::parseCacheControl(ResponseCacheInfo&, ...) over
\* the fields of the Cache-Control value.
RECURSIVE scanResponseDirectives(_, _)
scanResponseDirectives(fields, acc) ==
    IF fields = <<>> THEN acc
    ELSE LET f == Head(fields)
             a == IF f.name = "no-cache" THEN [acc EXCEPT !.no_cache = TRUE]
                  ELSE IF f.name = "no-store" THEN [acc EXCEPT !.no_store = TRUE]
                  ELSE IF f.name = "private" THEN [acc EXCEPT !.private_ = TRUE]
                  ELSE IF f.name = "max-age=" /\ parseDeltaSeconds_ok(f.arg)
                  THEN [acc EXCEPT !.max_age = Some(parseDeltaSeconds(f.arg))]
                  ELSE IF f.name = "s-maxage=" /\ parseDeltaSeconds_ok(f.arg)
                  THEN [acc EXCEPT !.s_maxage = Some(parseDeltaSeconds(f.arg))]
                  ELSE acc
         IN  scanResponseDirectives(Tail(fields), a)

\* HttpParser::parseCacheControl(ResponseCacheInfo&, cache_control, expires)
\* at clock value now.
parseCacheControl(ci, cache_control, expires, now_) ==
    LET d == scanResponseDirectives(Fields(cache_control),
                 [no_cache |-> FALSE, no_store |-> FALSE, private_ |-> FALSE,
                  max_age |-> None, s_maxage |-> None])
        c == [ci EXCEPT !.no_cache = d.no_cache, !.no_store = d.no_store,
                        !.private_ = d.private_]
    IN  IF d.s_maxage # None
        THEN [c EXCEPT !.freshness_lifetime = d.s_maxage[1]]
        ELSE IF d.max_age # None
        THEN [c EXCEPT !.freshness_lifetime = d.max_age[1]]
        ELSE IF expires # None
        THEN [c EXCEPT !.freshness_lifetime = expires[1] - ci.date_value]
        ELSE IF ci.last_modified # None
        THEN [c EXCEPT !.freshness_lifetime =
                           quot(now_ - ci.last_modified[1], 10)]
        ELSE c

\* HttpParser::parseResponseCacheInfo: [ok |-> the return value, ci |-> the
\* ResponseCacheInfo as it leaves the call].
parseResponseCacheInfo(ci, message, request_time, response_time, now_) ==
    LET f == collectResponseFields(message.headerLines,
                 [age_value |-> 0, cache_control |-> "", date_value |-> None,
                  etag |-> ci.etag, expires |-> None,
                  last_modified |-> ci.last_modified])
        c0 == [ci EXCEPT !.etag = f.etag, !.last_modified = f.last_modified]
    IN  IF f.date_value = None THEN [ok |-> FALSE, ci |-> c0]
        ELSE LET date_value == f.date_value[1]
                 apparent_age == IF response_time > date_value
                                 THEN response_time - date_value ELSE 0
                 response_delay == response_time - request_time
                 corrected_age_value == f.age_value + response_delay
                 c1 == [c0 EXCEPT !.date_value = date_value,
                          !.request_time = request_time,
                          !.response_time = response_time,
                          !.corrected_initial_age =
                              max(apparent_age, corrected_age_value)]
             IN  [ok |-> TRUE,
                  ci |-> parseCacheControl(c1, f.cache_control, f.expires, now_)]

\* ResponseCacheInfo::current_age at clock value now.
current_age(ci, now_) == ci.corrected_initial_age + (now_ - ci.response_time)

\* ResponseCacheInfo::expired.
expired(ci, now_) == current_age(ci, now_) >= ci.freshness_lifetime

\* HttpParser::parseCacheControl(RequestCacheInfo&, cache_control): no_cache
\* is cleared, then set when a field is exactly "no-cache".
requestNoCache(cache_control) ==
    \E i \in DOMAIN Fields(cache_control) :
        Fields(cache_control)[i] = Dir("no-cache", "")

\* HttpParser::parseRequestCacheInfo: the no_cache flag (each Cache-Control
\* header recomputes it, so the last one decides).
RECURSIVE parseRequestCacheInfo(_, _)
parseRequestCacheInfo(lines, no_cache) ==
    IF lines = <<>> THEN no_cache
    ELSE parseRequestCacheInfo(Tail(lines),
             IF Head(lines).key = "Cache-Control"
             THEN requestNoCache(Head(lines).value) ELSE no_cache)

\* ------------------------------------------------------------- inputs

U1 == "http://a/x"
U2 == "http://b/y"
U3 == "http://c/z"

D0 == "Thu, 01 Jan 1970 00:00:00 GMT"

Abc == [data |-> "abc", size |-> 3]

GetU1 == Wire(<<"GET", U1, "HTTP/1.1">>, << WH("host", "a") >>, NoBody)
GetU2 == Wire(<<"GET", U2, "HTTP/1.1">>, << WH("Host", "b") >>, NoBody)
GetU1NoCache ==
    Wire(<<"GET", U1, "HTTP/1.1">>, << WH("cache-control", "no-cache") >>, NoBody)
PostU1 ==
    Wire(<<"POST", U1, "HTTP/1.1">>, << WH("Content-Length", "3") >>, Abc)
GetU1Cond ==
    Wire(<<"GET", U1, "HTTP/1.1">>,
         << WH("if-none-match", "v1"), WH("host", "a"),
            WH("If-Modified-Since", "Thu, 01 Jan 1970 00:00:01 GMT"),
            WH("If-None-Match", "v2") >>, NoBody)
GetU1CondOnce ==
    Wire(<<"GET", U1, "HTTP/1.1">>,
         << WH("host", "a"), WH("If-None-Match", "v1"),
            WH("If-Modified-Since", "Thu, 01 Jan 1970 00:00:01 GMT") >>,
         NoBody)
PostU1Cond ==
    Wire(<<"POST", U1, "HTTP/1.1">>,
         << WH("If-None-Match", "v1"), WH("Content-Length", "3"),
            WH("If-Modified-Since", "Thu, 01 Jan 1970 00:00:01 GMT"),
            WH("host", "a"), WH("If-None-Match", "v2") >>, Abc)
ConnectA == Wire(<<"CONNECT", "a:443", "HTTP/1.1">>, <<>>, NoBody)
GetBadProtocol == Wire(<<"GET", U1, "HTTP/2.0">>, <<>>, NoBody)
GetShortLine == Wire(<<"GET">>, <<>>, NoBody)
GetBadHeader ==
    Wire(<<"GET", U1, "HTTP/1.1">>,
         << [name |-> "Host", value |-> "a", sep |-> " "] >>, NoBody)

Ok200(headers, body) == Wire(<<"HTTP/1.1", "200", "OK">>, headers, body)

RespFresh ==
    Ok200(<< WH("DATE", D0), WH("Cache-Control", "max-age=1"),
             WH("ETag", "e1"), WH("Content-Length", "3") >>, Abc)
RespNoCache ==
    Ok200(<< WH("Date", D0), WH("Cache-Control", "no-cache, max-age=2"),
             WH("Content-Length", "3") >>, Abc)
RespValidators ==
    Ok200(<< WH("Date", D0), WH("Cache-Control", "no-cache"),
             WH("Etag", "e1"), WH("Last-Modified", D0),
             WH("Content-Length", "3") >>, Abc)
RespMaxAge0 ==
    Ok200(<< WH("Date", D0), WH("Cache-Control", "max-age=0"),
             WH("Expires", "Thu, 01 Jan 1970 00:00:02 GMT"),
             WH("Content-Length", "3") >>, Abc)
RespSharedMaxAge ==
    Ok200(<< WH("Date", D0), WH("Cache-Control", "s-maxage=2, max-age=0"),
             WH("Content-Length", "3") >>, Abc)
RespMaxAge0ThenPublic ==
    Ok200(<< WH("Date", D0), WH("Cache-Control", "max-age=0"),
             WH("Cache-Control", "public"),
             WH("Expires", "Thu, 01 Jan 1970 00:00:02 GMT"),
             WH("Content-Length", "3") >>, Abc)
RespNoStore ==
    Ok200(<< WH("Date", D0), WH("Cache-Control", "no-store"),
             WH("Content-Length", "3") >>, Abc)
RespPrivate ==
    Ok200(<< WH("Date", D0), WH("Cache-Control", "private"),
             WH("Content-Length", "3") >>, Abc)
RespNoStoreThenMaxAge ==
    Ok200(<< WH("Date", D0), WH("Cache-Control", "no-store"),
             WH("Cache-Control", "max-age=2"),
             WH("Content-Length", "3") >>, Abc)
RespNoDate ==
    Ok200(<< WH("Cache-Control", "max-age=2"),
             WH("Content-Length", "3") >>, Abc)
RespBadDate ==
    Ok200(<< WH("Date", "yesterday"), WH("Cache-Control", "max-age=2"),
             WH("Content-Length", "3") >>, Abc)
RespDateOnly == Ok200(<< WH("Date", D0), WH("Content-Length", "3") >>, Abc)
RespMaxBody ==
    Ok200(<< WH("Date", D0), WH("Cache-Control", "max-age=2"),
             WH("Content-Length", "2097152") >>,
          [data |-> "big", size |-> 2097152])
RespTooBig ==
    Ok200(<< WH("Date", D0), WH("Cache-Control", "max-age=2"),
             WH("Content-Length", "2097153") >>,
          [data |-> "big", size |-> 2097153])
RespToEof ==
    Wire(<<"HTTP/1.0", "200", "OK">>,
         << WH("Date", D0), WH("Cache-Control", "max-age=2") >>, Abc)
Resp304 ==
    Wire(<<"HTTP/1.1", "304", "Not Modified">>,
         << WH("Date", D0), WH("Cache-Control", "max-age=2"),
            WH("ETag", "e2") >>, NoBody)
Resp304NoDate ==
    Wire(<<"HTTP/1.1", "304", "Not Modified">>,
         << WH("Cache-Control", "max-age=2") >>, NoBody)
Resp404 ==
    Wire(<<"HTTP/1.1", "404", "Not Found">>,
         << WH("Date", D0), WH("Cache-Control", "max-age=2"),
            WH("Content-Length", "0") >>, NoBody)
RespBadProtocol == Wire(<<"HTTP/2", "200", "OK">>, << WH("Date", D0) >>, NoBody)
RespBadStatus == Wire(<<"HTTP/1.1", "20", "OK">>, << WH("Date", D0) >>, NoBody)
RespShortLine == Wire(<<"HTTP/1.1">>, <<>>, NoBody)

\* The completion of an asynchronous operation: success, end of file, or
\* another error (boost::system::error_code).
OK == "ok"
EOF == "eof"
ERR == "error"

\* The traffic of a run is one of these workloads: two clients that share
\* a bucket, with responses that are stored and revalidated ("cache"); one
\* client whose requests meet every kind of response the cacheability
\* decision tells apart ("store"); one client whose connections and
\* messages fail, or whose messages ask for revalidation ("error"); and one
\* client that sends validators of its own, to an origin whose responses
\* have validators and are to be validated at each use ("validate"); and
\* one client whose origin answers with max-age=0, alone, beside s-maxage,
\* and in a Cache-Control header that another one follows ("stale"). The
\* workload "race" is a run of its own: two clients that ask for the same
\* URL, the second with Cache-Control: no-cache, so that its requests are
\* revalidated while the first is answered from the cache. The workload
\* "forward" is another: one client that sends validators of its own, once
\* and twice, to an origin whose responses are to be validated at each use
\* and have validators or none.
Workloads == {"cache", "store", "error", "validate", "stale"}

ClientsOf(wl) == IF wl \in {"cache", "race"} THEN Clients ELSE {1}

\* In the "cache" workload client 1 asks for U1 and every other client for
\* U2, whose origin always answers with a fresh 200 response.
RequestsOf(wl, c) ==
    IF wl = "cache"
    THEN (IF c = 1 THEN {GetU1} ELSE {GetU2})
    ELSE IF wl = "store" THEN {GetU1, PostU1}
    ELSE IF wl = "validate" THEN {GetU1Cond, PostU1Cond}
    ELSE IF wl = "stale" THEN {GetU1}
    ELSE IF wl = "race"
    THEN (IF c = 1 THEN {GetU1} ELSE {GetU1NoCache})
    ELSE IF wl = "forward" THEN {GetU1Cond, GetU1CondOnce}
    ELSE {GetU1, GetU1NoCache, ConnectA, GetBadProtocol, GetShortLine,
          GetBadHeader}

ResponsesOf(wl, host) ==
    IF wl = "cache"
    THEN (IF host = "a" THEN {RespFresh, Resp304}
          ELSE {RespFresh})
    ELSE IF wl = "store"
    THEN {RespFresh, RespNoStore, RespPrivate, RespNoStoreThenMaxAge,
          RespNoDate, RespBadDate, RespDateOnly, RespMaxBody, RespTooBig,
          Resp304, Resp304NoDate, Resp404}
    ELSE IF wl = "validate" THEN {RespValidators, Resp304}
    ELSE IF wl = "race" THEN {RespFresh, Resp304}
    ELSE IF wl = "forward" THEN {RespNoCache, RespValidators, Resp304}
    ELSE IF wl = "stale"
    THEN {RespMaxAge0, RespSharedMaxAge, RespMaxAge0ThenPublic}
    ELSE {RespFresh, RespNoCache, RespToEof, RespBadProtocol, RespBadStatus,
          RespShortLine}

ErrorsOf(wl) == IF wl = "error" THEN {EOF, ERR} ELSE {}

\* ------------------------------------------------------------- state

Slots == 0 .. (CacheSize - 1)

\* Cache::getEntry.
getEntry(key) == hasher(key) % CacheSize

\* Addresses of CacheItem objects: at any time an item is referenced by a
\* bucket or by the local shared_ptr of a client handler, and one more is
\* being made by store_cache.
ItemIds == 1 .. (CacheSize + Cardinality(Clients) + 1)

NoItem == [message |-> NoMessage, info |-> NewResponseCacheInfo(0)]

Free == <<>>

NoRemote ==
    [pc |-> "none", id |-> 0, parser |-> NewParser, message |-> NoMessage,
     request_url |-> "", request_host |-> "", request_time |-> 0,
     response_time |-> 0, ci |-> NewResponseCacheInfo(0),
     sent |-> NoMessage]

VARIABLES
    workload,    \* the traffic of this run
    now,         \* std::chrono::system_clock::now(), in seconds
    id_counter,  \* Server::id_counter
    cache,       \* Cache::vec: per bucket, Entry::key and Entry::value
    mtx,         \* Entry::mtx: Free, or the connection whose Accessor holds it
    heap,        \* the CacheItem objects the shared_ptrs point to
    client,      \* the ClientConnection objects
    remote,      \* the RemoteConnection object of each client's request
    tunnel,      \* clients whose sockets were moved into a Tunnel
    evicted,     \* history: the keys a store under another key overwrote
    task,        \* the threads of cache_test that use Accessors
    hist,        \* history of the set calls of the tasks
    connect,     \* the handler on_connect of a CONNECT and Tunnel::start in it
    write200,    \* the asynchronous write of HTTP200 to the client
    running,     \* Tunnel::running
    socket,      \* Tunnel::socket: 0 the client's, 1 the origin's
    buffer,      \* Tunnel::buffer
    dir,         \* the chain of handlers of each direction of the Tunnel
    net,         \* what the peers send, and what was read and written
    server,      \* Server: acceptor, io_service, signal_set, and Server::run
    pool,        \* the worker threads of Server::run
    parsing,     \* an HttpParser fed one parseStep at a time, and its input,
                 \* or a request-URI and the HttpUrl made of it
    log          \* Server::log: its mutex, the stream, and the scopes that write

\* The inside of one Tunnel and of the handler that makes it.
tunnelVars == <<connect, write200, running, socket, buffer, dir, net>>

\* The event loop of the Server and the threads that run it.
serverVars == <<server, pool>>

vars ==
    <<workload, now, id_counter, cache, mtx, heap, client, remote, tunnel,
      evicted, task, hist, tunnelVars, serverVars, parsing, log>>

\* What the handlers of the connections never touch.
testVars == <<task, hist, tunnelVars, serverVars, parsing, log>>

\* The server after construction (Server::Server, Cache::Cache) with the
\* ClientConnection objects that wait for a connection.
Constructed ==
    /\ now = 0
    /\ id_counter = 0
    /\ cache = [i \in Slots |-> [key |-> "", value |-> NULL]]
    /\ mtx = [i \in Slots |-> Free]
    /\ heap = [p \in ItemIds |-> NoItem]
    /\ client = [c \in Clients |->
                    [pc |-> "accept", id |-> 0, parser |-> NewParser,
                     message |-> NoMessage, tunneling |-> FALSE,
                     cached |-> NULL, no_cache |-> FALSE, written |-> <<>>]]
    /\ remote = [c \in Clients |-> NoRemote]
    /\ tunnel = {}
    /\ evicted = {}

\* No CONNECT has reached on_connect: there is no Tunnel.
NoTunnel ==
    /\ connect = [pc |-> "none"]
    /\ write200 = [pc |-> "none", rest |-> <<>>]
    /\ running = FALSE
    /\ socket = <<>>
    /\ buffer = <<>>
    /\ dir = <<>>
    /\ net = <<>>

\* The event loop is left out: every handler that is ready may run.
NoServer == server = <<>> /\ pool = <<>>

\* No parser is fed step by step: the connections parse whole messages.
NoParsing == parsing = <<>>

\* The log is left out.
NoLog == log = <<>>

Init ==
    /\ workload \in Workloads
    /\ Constructed
    /\ task = <<>>
    /\ hist = <<>>
    /\ NoTunnel
    /\ NoServer
    /\ NoParsing
    /\ NoLog

\* A lock_guard that does not wait.
lockable_always(m) == TRUE

\* std::lock_guard<std::mutex>::lock_guard, the condition it waits for.
lockable(m) == m = Free

\* ------------------------------------------------------------ helpers

\* The CacheItem objects still referenced by a bucket or by a handler's
\* local shared_ptr keep their contents; the others are destroyed.
Collect(h, ca, cl) ==
    [p \in ItemIds |->
        IF (\E i \in Slots : ca[i].value = p) \/ (\E c \in Clients : cl[c].cached = p)
        THEN h[p] ELSE NoItem]

\* std::make_shared<CacheItem>: the address of a new object.
NewItem ==
    CHOOSE p \in ItemIds :
        /\ \A i \in Slots : cache[i].value # p
        /\ \A c \in Clients : client[c].cached # p
        /\ \A q \in ItemIds :
              ((\A i \in Slots : cache[i].value # q)
                 /\ (\A c \in Clients : client[c].cached # q)) => p <= q

\* A new_id that returns what fetch_add returns: the value before the add.
new_id_fetched == id_counter

\* Server::new_id: id_counter.fetch_add(1) + 1, one atomic operation on the
\* counter.
new_id == id_counter + 1

\* Connection::write_message on a client: the message is serialized into
\* the buffer and an asynchronous write is started.
write_message(cl, kind, message) ==
    [cl EXCEPT !.pc = "write",
               !.written = Append(@, [kind |-> kind, message |-> message])]

\* operator<<(std::ostream&, const HttpMessage&): the message as it is put
\* on the wire, the start line, each header line as its key, a colon and its
\* value, and the body.
put_message(message) ==
    Wire(message.startLine,
         [i \in DOMAIN message.headerLines |->
             WH(message.headerLines[i].key, message.headerLines[i].value)],
         message.body)

\* ClientConnection::wait_header: a new id, the parser reset, a read armed.
wait_header(cl, id) ==
    [cl EXCEPT !.pc = "read_header", !.id = id, !.parser = reset(@),
               !.message = NoMessage, !.written = <<>>]

\* Connection::check_protocol.
check_protocol(protocol) == IsHttp(protocol)

\* Connection::replace_header(key, value).
RECURSIVE replaceFirst(_, _, _)
replaceFirst(lines, key, value) ==
    IF lines = <<>> THEN <<>>
    ELSE IF Head(lines).key = key
    THEN << [key |-> key, value |-> value] >> \o Tail(lines)
    ELSE << Head(lines) >> \o replaceFirst(Tail(lines), key, value)

replace_header(message, key, value) ==
    IF \E i \in DOMAIN message.headerLines : message.headerLines[i].key = key
    THEN [message EXCEPT !.headerLines = replaceFirst(@, key, value)]
    ELSE [message EXCEPT !.headerLines =
                             Append(@, [key |-> key, value |-> value])]

\* A loop that erases only the validator it finds first.
RECURSIVE eraseValidators_first(_)
eraseValidators_first(lines) ==
    IF lines = <<>> THEN <<>>
    ELSE IF Head(lines).key \in {"If-Modified-Since", "If-None-Match"}
    THEN Tail(lines)
    ELSE << Head(lines) >> \o eraseValidators_first(Tail(lines))

\* The loop of ClientConnection::on_read_done that erases the validators
\* the browser sent.
RECURSIVE eraseValidators(_)
eraseValidators(lines) ==
    IF lines = <<>> THEN <<>>
    ELSE IF Head(lines).key \in {"If-Modified-Since", "If-None-Match"}
    THEN eraseValidators(Tail(lines))
    ELSE << Head(lines) >> \o eraseValidators(Tail(lines))

\* A lookup that does not compare the key of the entry.
inCache_anyKey(result, url) == result.value # NULL

\* ClientConnection::on_read_done, the test on the result of Accessor::get:
\* the entry is used when its key is the URL and its value is not null.
inCache(result, url) == ~(result.key # url \/ result.value = NULL)

\* check_cached without its test of the no-cache of the cached response.
cachedValid_trusting(request_no_cache, ri, now_) ==
    IF request_no_cache THEN FALSE
    ELSE ~(current_age(ri, now_) >= ri.freshness_lifetime)

\* ClientConnection::check_cached, the decision: the cached response may be
\* sent without contacting the origin server.
cachedValid(request_no_cache, ri, now_) ==
    IF request_no_cache \/ ri.no_cache THEN FALSE
    ELSE ~(current_age(ri, now_) >= ri.freshness_lifetime)

\* ClientConnection::check_cached, the validators put into the request when
\* the cached response cannot be used.
addValidators(message, ri) ==
    LET m1 == IF ri.last_modified # None
              THEN replace_header(message, "If-Modified-Since",
                                  put_date(ri.last_modified[1]))
              ELSE message
    IN  IF ri.etag # "" THEN replace_header(m1, "If-None-Match", ri.etag)
        ELSE m1

\* The key taken after the request line was rewritten.
requestUrl_rewritten(message) == HttpUrl(message.startLine[2]).path

\* The key RemoteConnection::start_resolve keeps in request_url: the
\* request-URI as the client sent it, read before it is rewritten.
requestUrl(message) == message.startLine[2]

\* RemoteConnection::RemoteConnection and RemoteConnection::start_resolve.
\* cl is the client with its message as on_read_done leaves it; the result
\* is the client (request-URI rewritten to the path) and its remote.
start_resolve(cl) ==
    LET url == HttpUrl(cl.message.startLine[2])
    IN  [client |-> [cl EXCEPT !.pc = "wait_remote",
                               !.message.startLine[2] = url.path],
         remote |-> [NoRemote EXCEPT !.pc = "resolve", !.id = cl.id,
                                     !.request_url = requestUrl(cl.message),
                                     !.request_host = url.host]]

\* RemoteConnection::is_cacheable: [ok |-> the return value, ci |-> the
\* ResponseCacheInfo it filled].
is_cacheable(request_method, status, message, ci, request_time, response_time, now_) ==
    IF request_method # "GET" THEN [ok |-> FALSE, ci |-> ci]
    ELSE IF status # "200" /\ status # "304" THEN [ok |-> FALSE, ci |-> ci]
    ELSE IF message.body.size > MAX_CACHEABLE_BODYSIZE
    THEN [ok |-> FALSE, ci |-> ci]
    ELSE LET r == parseResponseCacheInfo(ci, message, request_time,
                                         response_time, now_)
         IN  IF ~r.ok THEN r
             ELSE IF r.ci.no_store \/ r.ci.private_
             THEN [ok |-> FALSE, ci |-> r.ci]
             ELSE r

\* ------------------------------------------------------------- actions

\* The clock advances.
Tick ==
    /\ now < MaxTime
    /\ now' = now + 1
    /\ UNCHANGED <<workload, id_counter, cache, mtx, heap, client, remote, tunnel, evicted, testVars>>

\* ClientConnection::on_accept.
OnAccept(c) ==
    /\ client[c].pc = "accept"
    /\ c \in ClientsOf(workload)
    /\ \/ /\ ERR \in ErrorsOf(workload)
          /\ client' = [client EXCEPT ![c].pc = "closed"]
          /\ UNCHANGED id_counter
       \/ /\ client' = [client EXCEPT ![c] = wait_header(@, new_id)]
          /\ id_counter' = new_id
    /\ UNCHANGED <<workload, now, cache, mtx, heap, remote, tunnel, evicted, testVars>>

\* The reads of the body that follow the headers (Connection::read_body,
\* on_read_body, HttpParser::putContent): with LENGTH and CHUNKED framing the
\* parser accepts after the body; with PLAIN framing the read ends at the end
\* of file, and the parser stays in BODY unless nothing was read.
readBody(parser, message, w) ==
    [parser |-> [parser EXCEPT
                   !.state = IF parser.format = "PLAIN" /\ w.body.size > 0
                             THEN "BODY" ELSE "ACCEPT",
                   !.contentLength = IF parser.format = "CHUNKED"
                                     THEN 0 ELSE @],
     message |-> [message EXCEPT !.body = w.body]]

\* The bytes of w complete the body the parser waits for.
bodyArrives(parser, w) ==
    parser.format = "LENGTH" => w.body.size = parser.contentLength

\* ClientConnection::bad_header.
ClientBadHeader(cl) == write_message(cl, "canned", HTTP400)

\* Connection::on_read_header on a client for the lines of one request (and
\* on_read_body when it has a body), then ClientConnection::on_read_done up
\* to the construction of the Accessor.
ClientOnReadHeader(c) ==
    /\ client[c].pc = "read_header"
    /\ client[c].id <= MaxId
    /\ \/ /\ ErrorsOf(workload) # {}
          /\ client' = [client EXCEPT ![c].pc = "closed"]
          /\ UNCHANGED remote
       \/ \E w \in RequestsOf(workload, c) :
            LET cl == client[c]
                h == parseHead(cl.parser, cl.message, w)
                b == IF h.parser.state = "BODY"
                     THEN readBody(h.parser, h.message, w) ELSE h
                read == [cl EXCEPT !.parser = b.parser, !.message = b.message]
                method == b.message.startLine[1]
                done == [read EXCEPT
                           !.tunneling = (method = "CONNECT"),
                           !.no_cache = parseRequestCacheInfo(
                                            b.message.headerLines, FALSE)]
            IN  IF h.parser.error # ""
                THEN /\ client' = [client EXCEPT ![c] =
                            ClientBadHeader([cl EXCEPT !.parser = h.parser,
                                                       !.message = h.message])]
                     /\ UNCHANGED remote
                ELSE /\ h.parser.state = "BODY" => bodyArrives(h.parser, w)
                     /\ IF ~check_protocol(b.message.startLine[3])
                        THEN /\ client' = [client EXCEPT ![c] =
                                              ClientBadHeader(read)]
                             /\ UNCHANGED remote
                        ELSE IF method = "GET"
                        THEN /\ client' = [client EXCEPT ![c] =
                                              [done EXCEPT !.pc = "lookup"]]
                             /\ UNCHANGED remote
                        ELSE LET r == start_resolve([done EXCEPT
                                   !.message.headerLines = eraseValidators(@)])
                             IN  /\ remote[c].pc = "none"
                                 /\ client' = [client EXCEPT ![c] = r.client]
                                 /\ remote' = [remote EXCEPT ![c] = r.remote]
    /\ UNCHANGED <<workload, now, id_counter, cache, mtx, heap, tunnel, evicted, testVars>>

\* ClientConnection::on_read_done, the scope of the Accessor: the bucket of
\* the URL is locked, read and unlocked.
ClientLookup(c) ==
    LET url == client[c].message.startLine[2]
        i == getEntry(url)
        result == cache[i]
    IN  /\ client[c].pc = "lookup"
        /\ lockable(mtx[i])
        /\ client' = [client EXCEPT
                        ![c].pc = "decide",
                        ![c].cached = IF inCache(result, url)
                                      THEN result.value ELSE NULL]
        /\ UNCHANGED <<workload, now, id_counter, cache, mtx, heap, remote, tunnel, evicted, testVars>>

\* What check_cached reads through its reference ri after cached.reset():
\* when the bucket was overwritten since the lookup, the reset destroys the
\* CacheItem and the reference dangles, and the read finds the old
\* contents or memory without validators.
riAfterReset(c) ==
    LET p == client[c].cached
    IN  IF \/ \E i \in Slots : cache[i].value = p
           \/ \E d \in Clients \ {c} : client[d].cached = p
        THEN {heap[p].info}
        ELSE {heap[p].info,
              [heap[p].info EXCEPT !.etag = "", !.last_modified = None]}

\* ClientConnection::on_read_done after the Accessor is gone: check_cached,
\* then the cached response is written or a RemoteConnection is started.
ClientDecide(c) ==
    LET cl == client[c]
        item == heap[cl.cached]
        miss == [cl EXCEPT !.cached = NULL]
    IN  /\ cl.pc = "decide"
        /\ IF cl.cached # NULL /\ cachedValid(cl.no_cache, item.info, now)
           THEN /\ client' = [client EXCEPT ![c] =
                                 write_message(miss, "cached", item.message)]
                /\ UNCHANGED remote
           ELSE \E ri \in (IF cl.cached # NULL THEN riAfterReset(c)
                           ELSE {NoItem.info}) :
                LET m == IF cl.cached # NULL
                         THEN addValidators(cl.message, ri)
                         ELSE [cl.message EXCEPT
                                 !.headerLines = eraseValidators(@)]
                    r == start_resolve([miss EXCEPT !.message = m])
                IN  /\ remote[c].pc = "none"
                    /\ client' = [client EXCEPT ![c] = r.client]
                    /\ remote' = [remote EXCEPT ![c] = r.remote]
        /\ heap' = Collect(heap, cache, client')
        /\ UNCHANGED <<workload, now, id_counter, cache, mtx, tunnel, evicted, testVars>>

\* An on_write_done that waits for the next request whatever was written.
loopsToReadHeader_always(cl) == TRUE

\* ClientConnection::on_write_done, its test: the next request is awaited
\* unless the request just answered was a CONNECT.
loopsToReadHeader(cl) == ~cl.tunneling

\* ClientConnection::on_write_done. When no request is awaited the handler
\* returns with nothing armed: the socket is the Tunnel's if one was made,
\* and is closed with the ClientConnection otherwise.
ClientOnWriteDone(c) ==
    /\ client[c].pc = "write"
    /\ \/ /\ ERR \in ErrorsOf(workload)
          /\ client' = [client EXCEPT ![c].pc = "closed"]
          /\ UNCHANGED id_counter
       \/ IF loopsToReadHeader(client[c])
          THEN /\ client' = [client EXCEPT ![c] = wait_header(@, new_id)]
               /\ id_counter' = new_id
          ELSE /\ client' = [client EXCEPT ![c].pc =
                                 IF c \in tunnel THEN "tunnel" ELSE "closed"]
               /\ UNCHANGED id_counter
    /\ UNCHANGED <<workload, now, cache, mtx, heap, remote, tunnel, evicted, testVars>>

\* An error path that writes 502 to the client and lets the remote
\* connection go on with what it has armed.
Remote502_continues(c) ==
    /\ client' = [client EXCEPT ![c] = write_message(@, "canned", HTTP502)]
    /\ UNCHANGED remote

\* RemoteConnection::handle_error for an error that is not the end of file,
\* and RemoteConnection::bad_header: 502 is written to the client, and the
\* remote connection ends.
Remote502(c) ==
    /\ client' = [client EXCEPT ![c] = write_message(@, "canned", HTTP502)]
    /\ remote' = [remote EXCEPT ![c] = NoRemote]

\* RemoteConnection::handle_error for the end of file: nothing is written;
\* the remote connection ends and with it the last reference to its client.
RemoteEof(c) ==
    /\ client' = [client EXCEPT ![c].pc = "closed"]
    /\ remote' = [remote EXCEPT ![c] = NoRemote]

\* RemoteConnection::on_resolve.
RemoteOnResolve(c) ==
    /\ remote[c].pc = "resolve"
    /\ \/ ERR \in ErrorsOf(workload) /\ Remote502(c)
       \/ /\ remote' = [remote EXCEPT ![c].pc = "connect"]
          /\ UNCHANGED client
    /\ UNCHANGED <<workload, now, id_counter, cache, mtx, heap, tunnel, evicted, testVars>>

\* RemoteConnection::on_connect.
RemoteOnConnect(c) ==
    /\ remote[c].pc = "connect"
    /\ \/ ERR \in ErrorsOf(workload) /\ Remote502(c) /\ UNCHANGED tunnel
       \/ IF client[c].message.startLine[1] = "CONNECT"
          THEN /\ client' = [client EXCEPT ![c] =
                                write_message(@, "canned", HTTP200)]
               /\ tunnel' = tunnel \cup {c}
               /\ remote' = [remote EXCEPT ![c] = NoRemote]
          ELSE /\ remote' = [remote EXCEPT ![c].pc = "write",
                                           ![c].request_time = now,
                                           ![c].sent = client[c].message]
               /\ UNCHANGED <<client, tunnel>>
    /\ UNCHANGED <<workload, now, id_counter, cache, mtx, heap, evicted, testVars>>

\* RemoteConnection::on_write_done.
RemoteOnWriteDone(c) ==
    /\ remote[c].pc = "write"
    /\ \/ ERR \in ErrorsOf(workload) /\ Remote502(c)
       \/ /\ remote' = [remote EXCEPT ![c].pc = "read_header",
                                      ![c].parser = reset(@),
                                      ![c].message = NoMessage]
          /\ UNCHANGED client
    /\ UNCHANGED <<workload, now, id_counter, cache, mtx, heap, tunnel, evicted, testVars>>

\* RemoteConnection::on_read_done once the response is read: the protocol is
\* checked, the response is written to the client, and is_cacheable decides
\* whether store_cache follows. rm is the remote with the response read.
RemoteOnReadDone(c, rm) ==
    LET request_method == client[c].message.startLine[1]
        status == rm.message.startLine[2]
        q(garbage) == is_cacheable(request_method, status, rm.message,
                                   NewResponseCacheInfo(garbage),
                                   rm.request_time, now, now)
    IN  IF ~check_protocol(rm.message.startLine[1]) THEN Remote502(c)
        ELSE IF rm.parser.state \in {"START", "HEADER"} THEN Remote502(c)
        ELSE /\ client' = [client EXCEPT ![c] =
                              write_message(@, "origin", rm.message)]
             /\ \E garbage \in Indeterminate :
                  /\ \A g \in Indeterminate : q(g) = q(garbage) => garbage <= g
                  /\ remote' = [remote EXCEPT ![c] =
                        IF q(garbage).ok
                        THEN [rm EXCEPT !.pc = "store", !.response_time = now,
                                        !.ci = q(garbage).ci]
                        ELSE NoRemote]

\* Connection::on_read_header on a remote for the lines of the response (and
\* on_read_body for its body), then RemoteConnection::on_read_done up to the
\* construction of the Accessor in store_cache.
RemoteOnReadHeader(c) ==
    /\ remote[c].pc = "read_header"
    /\ \/ EOF \in ErrorsOf(workload) /\ RemoteEof(c)
       \/ ERR \in ErrorsOf(workload) /\ Remote502(c)
       \/ \E w \in ResponsesOf(workload, remote[c].request_host) :
            LET rm == remote[c]
                h == parseHead(rm.parser, rm.message, w)
                b == IF h.parser.state = "BODY"
                     THEN readBody(h.parser, h.message, w) ELSE h
            IN  IF h.parser.error # "" THEN Remote502(c)
                ELSE \/ /\ h.parser.state = "BODY"
                        /\ ERR \in ErrorsOf(workload)
                        /\ Remote502(c)
                     \/ /\ h.parser.state = "BODY" => bodyArrives(h.parser, w)
                        /\ RemoteOnReadDone(c, [rm EXCEPT !.parser = b.parser,
                                                   !.message = b.message])
    /\ UNCHANGED <<workload, now, id_counter, cache, mtx, heap, tunnel, evicted, testVars>>

\* Cache::Accessor::set: the key of the Accessor and the value become the
\* entry of the bucket.
set(key, value) == [key |-> key, value |-> value]

\* A test that takes any entry of the bucket for the entry of the URL.
sameKey_always(result, request_url) == result.value # NULL

\* RemoteConnection::store_cache, the test of a 304 response: the entry the
\* Accessor got is the entry of the request URL.
sameKey(result, request_url) == result.key = request_url

\* An update that replaces the whole stored message by the response.
updateHeaderLines_all(item, message) == [item EXCEPT !.message = message]

\* RemoteConnection::store_cache, the first assignment for a 304 response:
\* the header lines of the stored message become those of the response.
updateHeaderLines(item, message) ==
    [item EXCEPT !.message.headerLines = message.headerLines]

\* RemoteConnection::store_cache, the second assignment for a 304 response.
updateInfo(item, ci) == [item EXCEPT !.info = ci]

\* RemoteConnection::store_cache: the Accessor is constructed and read; a
\* 200 response is set as the new entry of the bucket; for a 304 response
\* whose URL is the key of the entry the header lines of the stored message
\* are replaced; otherwise nothing is stored.
RemoteStoreCache(c) ==
    LET rm == remote[c]
        i == getEntry(rm.request_url)
        result == cache[i]
        ptr == NewItem
    IN  /\ rm.pc = "store"
        /\ lockable(mtx[i])
        /\ IF rm.message.startLine[2] = "200"
           THEN /\ cache' = [cache EXCEPT ![i] = set(rm.request_url, ptr)]
                /\ heap' = Collect([heap EXCEPT ![ptr] =
                               [message |-> rm.message, info |-> rm.ci]],
                               cache', client)
                /\ evicted' = IF result.key \in {"", cache'[i].key}
                              THEN evicted \ {cache'[i].key}
                              ELSE (evicted \ {cache'[i].key}) \cup {result.key}
                /\ remote' = [remote EXCEPT ![c] = NoRemote]
                /\ UNCHANGED mtx
           ELSE IF sameKey(result, rm.request_url)
           THEN /\ heap' = [heap EXCEPT ![result.value] =
                               updateHeaderLines(@, rm.message)]
                /\ mtx' = [mtx EXCEPT ![i] = <<c>>]
                /\ remote' = [remote EXCEPT ![c].pc = "store_info"]
                /\ UNCHANGED <<cache, evicted>>
           ELSE /\ remote' = [remote EXCEPT ![c] = NoRemote]
                /\ UNCHANGED <<cache, heap, mtx, evicted>>
        /\ UNCHANGED <<workload, now, id_counter, client, tunnel, testVars>>

\* RemoteConnection::store_cache for a 304 response, continued: the
\* ResponseCacheInfo of the stored item is replaced and the Accessor ends.
RemoteStoreInfo(c) ==
    LET rm == remote[c]
        i == getEntry(rm.request_url)
    IN  /\ rm.pc = "store_info"
        /\ heap' = [heap EXCEPT ![cache[i].value] = updateInfo(@, rm.ci)]
        /\ mtx' = [mtx EXCEPT ![i] = Free]
        /\ remote' = [remote EXCEPT ![c] = NoRemote]
        /\ UNCHANGED <<workload, now, id_counter, cache, client, tunnel, evicted, testVars>>

Next ==
    \/ Tick
    \/ \E c \in Clients : OnAccept(c)
    \/ \E c \in Clients : ClientOnReadHeader(c)
    \/ \E c \in Clients : ClientLookup(c)
    \/ \E c \in Clients : ClientDecide(c)
    \/ \E c \in Clients : ClientOnWriteDone(c)
    \/ \E c \in Clients : RemoteOnResolve(c)
    \/ \E c \in Clients : RemoteOnConnect(c)
    \/ \E c \in Clients : RemoteOnWriteDone(c)
    \/ \E c \in Clients : RemoteOnReadHeader(c)
    \/ \E c \in Clients : RemoteStoreCache(c)
    \/ \E c \in Clients : RemoteStoreInfo(c)

Spec == Init /\ [][Next]_vars

\* The proxy with two clients that ask for the same URL.
InitRace ==
    /\ workload = "race"
    /\ Constructed
    /\ task = <<>>
    /\ hist = <<>>
    /\ NoTunnel
    /\ NoServer
    /\ NoParsing
    /\ NoLog

SpecRace == InitRace /\ [][Next]_vars

\* The proxy with one client whose requests have validators of their own,
\* and an origin whose responses need validation, with and without
\* validators.
InitForward ==
    /\ workload = "forward"
    /\ Constructed
    /\ task = <<>>
    /\ hist = <<>>
    /\ NoTunnel
    /\ NoServer
    /\ NoParsing
    /\ NoLog

SpecForward == InitForward /\ [][Next]_vars

\* ------------------------------------------- the Cache under its tasks

\* The threads that use Accessors on one Cache at the same time, as the
\* threads of cache_test do, and the keys they use: U1 and U2 share a
\* bucket.
Tasks == {1, 2}

TestKeys == {U1, U2, U3}

NoResult == <<>>

Idle == [pc |-> "idle", key |-> "", value |-> NULL, result |-> NoResult]

\* hist.calls counts the set calls; the value a set call stores is its
\* number, hist.log[n] is the key of call n, and hist.released[i] is the
\* last call on bucket i whose Accessor is gone.
InitCache ==
    /\ workload = "test"
    /\ Constructed
    /\ task = [t \in Tasks |-> Idle]
    /\ hist = [calls |-> 0, log |-> <<>>, released |-> [i \in Slots |-> 0]]
    /\ NoTunnel
    /\ NoServer
    /\ NoParsing
    /\ NoLog

proxyVars ==
    <<workload, now, id_counter, heap, client, remote, tunnel, evicted,
      tunnelVars, serverVars, parsing, log>>

\* Accessor::Accessor: entry is the bucket of the key, and the lock_guard
\* locks its mutex.
Construct(t, key) ==
    /\ task[t].pc = "idle"
    /\ lockable(mtx[getEntry(key)])
    /\ mtx' = [mtx EXCEPT ![getEntry(key)] = <<t>>]
    /\ task' = [task EXCEPT ![t] = [Idle EXCEPT !.pc = "held", !.key = key]]
    /\ UNCHANGED <<cache, hist, proxyVars>>

\* Accessor::get: the key and the value of the entry, with the last
\* released call of the bucket at this moment.
Get(t) ==
    LET i == getEntry(task[t].key)
    IN  /\ task[t].pc = "held"
        /\ task' = [task EXCEPT ![t].result =
                       [key |-> cache[i].key, value |-> cache[i].value,
                        floor |-> hist.released[i]]]
        /\ UNCHANGED <<cache, mtx, hist, proxyVars>>

\* Accessor::set, its first statement: entry.key = key.
SetKey(t) ==
    LET i == getEntry(task[t].key)
    IN  /\ task[t].pc = "held"
        /\ hist.calls < MaxCalls
        /\ hist' = [hist EXCEPT !.calls = @ + 1,
                                !.log = Append(@, task[t].key)]
        /\ cache' = [cache EXCEPT ![i].key = set(task[t].key, NULL).key]
        /\ task' = [task EXCEPT ![t].pc = "set", ![t].value = hist'.calls]
        /\ UNCHANGED <<mtx, proxyVars>>

\* Accessor::set, its second statement: entry.value = std::move(value).
SetValue(t) ==
    LET i == getEntry(task[t].key)
    IN  /\ task[t].pc = "set"
        /\ cache' = [cache EXCEPT ![i].value =
                        set(task[t].key, task[t].value).value]
        /\ task' = [task EXCEPT ![t].pc = "held"]
        /\ UNCHANGED <<mtx, hist, proxyVars>>

\* Accessor::~Accessor: the lock_guard unlocks the mutex.
Destroy(t) ==
    LET i == getEntry(task[t].key)
    IN  /\ task[t].pc = "held"
        /\ mtx' = [mtx EXCEPT ![i] = Free]
        /\ hist' = [hist EXCEPT !.released[i] = max(@, task[t].value)]
        /\ task' = [task EXCEPT ![t] = Idle]
        /\ UNCHANGED <<cache, proxyVars>>

NextCache ==
    \/ \E t \in Tasks, key \in TestKeys : Construct(t, key)
    \/ \E t \in Tasks : Get(t)
    \/ \E t \in Tasks : SetKey(t)
    \/ \E t \in Tasks : SetValue(t)
    \/ \E t \in Tasks : Destroy(t)

SpecCache == InitCache /\ [][NextCache]_vars

\* -------------------------------------- one Tunnel under its handlers

\* The sockets of a Tunnel: socket[0] was the client's, socket[1] the
\* origin's. Direction d reads from socket[d] and writes to socket[1 - d].
Sides == {0, 1}

\* The number of bytes a peer sends before it closes, at most.
MaxBytes == 2

\* What the client and the origin send through the tunnel.
PeerData == << <<"c1", "c2", "c3", "c4">>, <<"s1", "s2", "s3", "s4">> >>

\* operator<< on HTTP200: the bytes of the response, in two pieces.
Response200 == <<"HTTP/1.1 200 OK", "(end of headers)">>

\* What the handlers of the Tunnel never touch.
connVars ==
    <<workload, now, id_counter, cache, mtx, heap, client, remote, tunnel,
      evicted, task, hist, serverVars, parsing, log>>

\* RemoteConnection::on_connect is entered without error for a CONNECT: the
\* sockets of the client and of the origin are open, and each peer has some
\* bytes to send before it closes. dir[d].armed counts the operations of
\* direction d that are armed; dir[d].relayed is what direction d wrote.
InitTunnel ==
    /\ workload = "tunnel"
    /\ Constructed
    /\ task = <<>>
    /\ hist = <<>>
    /\ connect = [pc |-> "on_connect"]
    /\ write200 = [pc |-> "none", rest |-> <<>>]
    /\ running = FALSE
    /\ socket = [s \in Sides |-> "open"]
    /\ buffer = [s \in Sides |-> <<>>]
    /\ dir = [d \in Sides |->
                 [pc |-> "idle", err |-> OK, armed |-> 0, relayed |-> <<>>]]
    /\ NoServer
    /\ NoParsing
    /\ NoLog
    /\ \E n \in [Sides -> 0 .. MaxBytes] :
         net = [s \in Sides |->
                   [incoming |-> SubSeq(PeerData[s + 1], 1, n[s]),
                    read |-> <<>>, written |-> <<>>]]

\* The first k elements of a sequence, and the rest.
Take(seq, k) == SubSeq(seq, 1, k)
Drop(seq, k) == SubSeq(seq, k + 1, Len(seq))

\* on_connect: client->write_message(HTTP200). The response is put into the
\* buffer and async_write starts; its first async_write_some transfers some
\* of the bytes.
WriteMessage200 ==
    /\ connect.pc = "on_connect"
    /\ \E k \in 1 .. Len(Response200) :
         /\ net' = [net EXCEPT ![0].written = @ \o Take(Response200, k)]
         /\ write200' = [pc |-> "armed", rest |-> Drop(Response200, k)]
    /\ connect' = [pc |-> "construct"]
    /\ UNCHANGED <<running, socket, buffer, dir, connVars>>

\* The composed operation async_write of HTTP200 continues when its
\* async_write_some has completed: with nothing left on_write_done is called
\* without error; otherwise the next async_write_some is made on
\* client->socket, which fails once that socket was moved into the Tunnel,
\* and on_write_done is called with the error.
Write200Some ==
    /\ write200.pc = "armed"
    /\ IF write200.rest = <<>>
       THEN write200' = [write200 EXCEPT !.pc = "done"] /\ UNCHANGED net
       ELSE IF connect.pc = "construct"
       THEN \E k \in 1 .. Len(write200.rest) :
              /\ net' = [net EXCEPT ![0].written = @ \o Take(write200.rest, k)]
              /\ write200' = [write200 EXCEPT !.rest = Drop(@, k)]
       ELSE write200' = [write200 EXCEPT !.pc = "failed"] /\ UNCHANGED net
    /\ UNCHANGED <<connect, running, socket, buffer, dir, connVars>>

\* on_connect: std::make_shared<Tunnel>. The constructor moves the sockets
\* and initializes server, socket and id; running is left uninitialized.
TunnelTunnel ==
    /\ connect.pc = "construct"
    /\ running' \in BOOLEAN
    /\ connect' = [pc |-> "activate0"]
    /\ UNCHANGED <<write200, socket, buffer, dir, net, connVars>>

\* Tunnel::activate(i): a read of at least one byte is armed on socket[i].
activate(i) ==
    dir' = [dir EXCEPT ![i].pc = "reading", ![i].armed = @ + 1]

\* Tunnel::start, its calls of activate.
StartActivate(i) ==
    /\ connect.pc = (IF i = 0 THEN "activate0" ELSE "activate1")
    /\ activate(i)
    /\ connect' = [pc |-> IF i = 0 THEN "activate1" ELSE "set_running"]
    /\ UNCHANGED <<write200, running, socket, buffer, net, connVars>>

\* Tunnel::start, running = true.
StartSetRunning ==
    /\ connect.pc = "set_running"
    /\ running' = TRUE
    /\ connect' = [pc |-> "started"]
    /\ UNCHANGED <<write200, socket, buffer, dir, net, connVars>>

\* The read armed by activate(i) completes: with an error when the socket
\* was closed, with some of the bytes the peer sent, or with the end of file
\* when the peer sent everything and closed.
ReadCompletes(i) ==
    /\ dir[i].pc = "reading"
    /\ IF socket[i] = "closed"
       THEN /\ dir' = [dir EXCEPT ![i].pc = "on_read", ![i].err = ERR]
            /\ UNCHANGED <<buffer, net>>
       ELSE IF net[i].incoming = <<>>
       THEN /\ dir' = [dir EXCEPT ![i].pc = "on_read", ![i].err = EOF]
            /\ UNCHANGED <<buffer, net>>
       ELSE \E k \in 1 .. Len(net[i].incoming) :
              /\ buffer' = [buffer EXCEPT ![i] = @ \o Take(net[i].incoming, k)]
              /\ net' = [net EXCEPT ![i].incoming = Drop(@, k),
                                    ![i].read = @ \o Take(net[i].incoming, k)]
              /\ dir' = [dir EXCEPT ![i].pc = "on_read", ![i].err = OK]
    /\ UNCHANGED <<connect, write200, running, socket, connVars>>

\* Tunnel::stop.
stop ==
    IF running
    THEN /\ running' = FALSE
         /\ socket' = [s \in Sides |-> "closed"]
    ELSE UNCHANGED <<running, socket>>

\* Tunnel::on_read(i, err, n).
on_read(i) ==
    /\ dir[i].pc = "on_read"
    /\ IF dir[i].err # OK
       THEN /\ stop
            /\ dir' = [dir EXCEPT ![i].pc = "ended", ![i].armed = @ - 1]
       ELSE /\ dir' = [dir EXCEPT ![i].pc = "writing"]
            /\ UNCHANGED <<running, socket>>
    /\ UNCHANGED <<connect, write200, buffer, net, connVars>>

\* A composed write that completes after its first async_write_some.
writeComplete_first(rest) == TRUE

\* asio::async_write on a streambuf: it completes when the whole contents
\* were written.
writeComplete(rest) == rest = <<>>

\* The write of buffer[i] to socket[1 - i] armed by on_read(i) goes on:
\* with an error when the socket was closed or the peer is gone, or with
\* some of the bytes transferred, until all are.
WriteSome(i) ==
    /\ dir[i].pc = "writing"
    /\ \/ /\ socket[1 - i] = "closed" \/ net[1 - i].incoming = <<>>
          /\ dir' = [dir EXCEPT ![i].pc = "on_write", ![i].err = ERR]
          /\ UNCHANGED <<buffer, net>>
       \/ /\ socket[1 - i] = "open"
          /\ \E k \in 1 .. Len(buffer[i]) :
               /\ buffer' = [buffer EXCEPT ![i] = Drop(@, k)]
               /\ net' = [net EXCEPT
                            ![1 - i].written = @ \o Take(buffer[i], k)]
               /\ dir' = [dir EXCEPT
                            ![i].relayed = @ \o Take(buffer[i], k),
                            ![i].err = OK,
                            ![i].pc = IF writeComplete(buffer'[i])
                                      THEN "on_write" ELSE "writing"]
    /\ UNCHANGED <<connect, write200, running, socket, connVars>>

\* Tunnel::on_write(!i, err, n), the handler of the write of direction i.
on_write(i) ==
    /\ dir[i].pc = "on_write"
    /\ IF dir[i].err # OK
       THEN /\ stop
            /\ dir' = [dir EXCEPT ![i].pc = "ended", ![i].armed = @ - 1]
       ELSE /\ dir' = [dir EXCEPT ![i].pc = "reading"]
            /\ UNCHANGED <<running, socket>>
    /\ UNCHANGED <<connect, write200, buffer, net, connVars>>

NextTunnel ==
    \/ WriteMessage200
    \/ Write200Some
    \/ TunnelTunnel
    \/ \E i \in Sides : StartActivate(i)
    \/ StartSetRunning
    \/ \E i \in Sides : ReadCompletes(i)
    \/ \E i \in Sides : on_read(i)
    \/ \E i \in Sides : WriteSome(i)
    \/ \E i \in Sides : on_write(i)

SpecTunnel == InitTunnel /\ [][NextTunnel]_vars

\* ------------------------------------ the Server and its worker threads

\* std::vector<std::thread> pool(4) in Server::run.
PoolSize == 4

Threads == 1 .. PoolSize

\* The number of connections that arrive, at most, and the number of
\* handlers the connections make ready after their first, at most.
MaxAccepts == 2
MaxHandlers == 2

\* What the event loop never touches.
loopVars ==
    <<workload, now, id_counter, cache, mtx, heap, client, remote, tunnel,
      evicted, task, hist, tunnelVars, parsing, log>>

\* The Server after Server::Server, as main calls Server::run: the acceptor
\* is open, the wait for SIGINT and SIGTERM is armed, no thread runs.
\* server.accept is the asynchronous accept (none, pending, or completed
\* with "ok" or "failed" and its handler ready); server.accepted counts the
\* connections accepted; server.ready the handlers of connections that are
\* ready to run, and server.armed those that were armed after the first.
InitServer ==
    /\ workload = "server"
    /\ Constructed
    /\ task = <<>>
    /\ hist = <<>>
    /\ NoTunnel
    /\ NoParsing
    /\ NoLog
    /\ server = [main |-> "run", acceptor |-> "open", stopped |-> FALSE,
                 signal |-> "waiting", accept |-> "none", accepted |-> 0,
                 ready |-> 0, armed |-> 0]
    /\ pool = [t \in Threads |-> "unstarted"]

\* Server::start_accept: an accept is armed; on a closed acceptor it
\* completes at once with an error.
start_accept(srv) ==
    [srv EXCEPT !.accept = IF srv.acceptor = "open" THEN "pending"
                           ELSE "failed"]

\* Server::run up to the joins: listen, start_accept, and the threads.
ServerRun ==
    /\ server.main = "run"
    /\ server' = [start_accept(server) EXCEPT !.main = "join"]
    /\ pool' = [t \in Threads |-> "test"]
    /\ UNCHANGED loopVars

\* SIGINT or SIGTERM is received: the handler of the signal_set is ready.
Signal ==
    /\ server.signal = "waiting"
    /\ server' = [server EXCEPT !.signal = "ready"]
    /\ UNCHANGED <<pool, loopVars>>

\* A connection arrives at the open acceptor: the pending accept completes.
AcceptCompletes ==
    /\ server.accept = "pending"
    /\ server.acceptor = "open"
    /\ server.accepted < MaxAccepts
    /\ server' = [server EXCEPT !.accept = "ok", !.accepted = @ + 1]
    /\ UNCHANGED <<pool, loopVars>>

\* A loop that never ends.
leavesLoop_never(stopped) == FALSE

\* Server::work_thread, the test of its loop: the thread leaves when the
\* io_service is stopped.
leavesLoop(stopped) == stopped

\* Server::work_thread, while (!io_service.stopped()).
WorkThreadTest(t) ==
    /\ pool[t] = "test"
    /\ pool' = [pool EXCEPT ![t] =
                   IF leavesLoop(server.stopped) THEN "exited" ELSE "run"]
    /\ UNCHANGED <<server, loopVars>>

\* io_service::run returns to work_thread once the io_service is stopped.
RunReturns(t) ==
    /\ pool[t] = "run"
    /\ server.stopped
    /\ pool' = [pool EXCEPT ![t] = "test"]
    /\ UNCHANGED <<server, loopVars>>

\* io_service::run in thread t takes a ready handler: Server::finish, the
\* handler of the accept, or a handler of a connection.
RunDispatch(t) ==
    /\ pool[t] = "run"
    /\ ~server.stopped
    /\ \/ /\ server.signal = "ready"
          /\ server' = [server EXCEPT !.signal = "done"]
          /\ pool' = [pool EXCEPT ![t] = "finish"]
       \/ /\ server.accept \in {"ok", "failed"}
          /\ server' = [server EXCEPT !.accept = "none"]
          /\ pool' = [pool EXCEPT ![t] =
                         IF server.accept = "ok" THEN "accept_ok"
                         ELSE "accept_failed"]
       \/ /\ server.ready > 0
          /\ server' = [server EXCEPT !.ready = @ - 1]
          /\ pool' = [pool EXCEPT ![t] = "handler"]
    /\ UNCHANGED loopVars

\* Server::finish, acceptor.close(): the pending accept is cancelled and
\* its handler is ready with the error.
FinishClose(t) ==
    /\ pool[t] = "finish"
    /\ server' = [server EXCEPT
                    !.acceptor = "closed",
                    !.accept = IF @ = "pending" THEN "failed" ELSE @]
    /\ pool' = [pool EXCEPT ![t] = "finish_stop"]
    /\ UNCHANGED loopVars

\* Server::finish, io_service.stop() and the log line.
FinishStop(t) ==
    /\ pool[t] = "finish_stop"
    /\ server' = [server EXCEPT !.stopped = TRUE]
    /\ pool' = [pool EXCEPT ![t] = "run"]
    /\ UNCHANGED loopVars

\* The handler of the accept (the lambda of Server::start_accept):
\* on_accept, which arms the first read of an accepted connection and
\* returns on an error, then start_accept.
AcceptHandler(t) ==
    /\ pool[t] \in {"accept_ok", "accept_failed"}
    /\ server' = [start_accept(server) EXCEPT
                    !.ready = IF pool[t] = "accept_ok" THEN @ + 1 ELSE @]
    /\ pool' = [pool EXCEPT ![t] = "run"]
    /\ UNCHANGED loopVars

\* A handler of a connection runs and returns, with another operation
\* armed that completes later or none; or it throws, and io_service::run
\* leaves with the exception, which work_thread catches.
ConnectionHandler(t) ==
    /\ pool[t] = "handler"
    /\ \/ /\ server.armed < MaxHandlers
          /\ server' = [server EXCEPT !.ready = @ + 1, !.armed = @ + 1]
          /\ pool' = [pool EXCEPT ![t] = "run"]
       \/ /\ UNCHANGED server
          /\ pool' \in {[pool EXCEPT ![t] = "run"], [pool EXCEPT ![t] = "test"]}
    /\ UNCHANGED loopVars

\* Server::run, the joins: it returns when every thread has ended.
ServerJoin ==
    /\ server.main = "join"
    /\ \A t \in Threads : pool[t] = "exited"
    /\ server' = [server EXCEPT !.main = "returned"]
    /\ UNCHANGED <<pool, loopVars>>

\* The steps of worker thread t.
WorkThread(t) ==
    \/ WorkThreadTest(t)
    \/ RunReturns(t)
    \/ RunDispatch(t)
    \/ FinishClose(t)
    \/ FinishStop(t)
    \/ AcceptHandler(t)
    \/ ConnectionHandler(t)

NextServer ==
    \/ ServerRun
    \/ Signal
    \/ AcceptCompletes
    \/ \E t \in Threads : WorkThread(t)
    \/ ServerJoin

SpecServer == InitServer /\ [][NextServer]_vars

\* The threads of the operating system run when they can: main in
\* Server::run, and each worker thread, whose io_service::run takes a
\* ready handler when there is one.
SpecServerFair ==
    /\ SpecServer
    /\ WF_vars(ServerRun)
    /\ WF_vars(ServerJoin)
    /\ \A t \in Threads : WF_vars(WorkThread(t))

\* ------------------------------------------ an HttpParser, step by step

\* The number of messages one parser reads, at most.
MaxMessages == 2

\* What the parser never touches.
parserVars ==
    <<workload, now, id_counter, cache, mtx, heap, client, remote, tunnel,
      evicted, task, hist, tunnelVars, serverVars, log>>

\* A line of the head of a message as on_read_header finds it in the
\* buffer: the start line, a header line, or the empty line.
Piece(kind, content) == [kind |-> kind, content |-> content]

\* The lines of the head of the wire message w.
Stream(w) ==
    << Piece("start", w.startLine) >>
      \o [i \in DOMAIN w.headers |-> Piece("header", w.headers[i])]
      \o << Piece("blank", "") >>

\* The bytes of a body of three bytes, and of the same body with two bytes
\* after it.
AbcBytes == <<"a", "b", "c">>
AbcdeBytes == <<"a", "b", "c", "d", "e">>

\* The bytes of a chunked body: a chunk of 3 bytes, the last chunk, and the
\* empty line after it.
ChunkedBytes ==
    <<"3", "\r", "\n", "h", "e", "y", "\r", "\n", "0", "\r", "\n", "\r", "\n">>

\* The bytes of a chunked body that is the last chunk alone: the chunk of
\* size zero and the empty line after it.
ZeroChunkBytes == <<"0", "\r", "\n", "\r", "\n">>

\* Responses and requests with the framing headers in each combination.
RespChunked == Ok200(<< WH("Transfer-Encoding", "chunked") >>, NoBody)
RespLengthThenChunked ==
    Ok200(<< WH("Content-Length", "3"),
             WH("Transfer-Encoding", "gzip, chunked") >>, NoBody)
RespChunkedThenLength ==
    Ok200(<< WH("Transfer-Encoding", "chunked"),
             WH("Content-Length", "3") >>, NoBody)
Resp100 == Wire(<<"HTTP/1.1", "100", "Continue">>, <<>>, NoBody)
Resp199 ==
    Wire(<<"HTTP/1.1", "199", "Info">>, << WH("Content-Length", "3") >>, NoBody)
Resp204 ==
    Wire(<<"HTTP/1.0", "204", "No Content">>,
         << WH("Content-Length", "3") >>, NoBody)
PostU1Empty ==
    Wire(<<"POST", U1, "HTTP/1.1">>, << WH("Content-Length", "0") >>, NoBody)
PostU1Chunked ==
    Wire(<<"POST", U1, "HTTP/1.1">>,
         << WH("Transfer-Encoding", "chunked") >>, NoBody)
RespEmpty ==
    Wire(<<"HTTP/1.1", "200", "OK">>, << WH("Content-Length", "0") >>, NoBody)
PostU1EmptyThenChunked ==
    Wire(<<"POST", U1, "HTTP/1.1">>,
         << WH("Content-Length", "0"), WH("Transfer-Encoding", "chunked") >>,
         NoBody)

\* What a peer sends: the head of w, then bytes, after which it closes its
\* end of the connection or leaves it open.
Sent(w, bytes, closes) == [head |-> w, bytes |-> bytes, closes |-> closes]

\* The peer sends the whole body, or closes after any part of it.
Cuts(w, bytes) ==
    {Sent(w, bytes, FALSE)}
      \cup {Sent(w, Take(bytes, k), TRUE) : k \in 0 .. Len(bytes)}

ParserInputs ==
    {Sent(w, <<>>, FALSE) :
        w \in {GetU1, GetU1Cond, ConnectA, GetShortLine, GetBadHeader,
               Resp304, RespBadStatus, RespShortLine, Resp100, Resp199,
               Resp204, PostU1Empty, RespEmpty}}
      \cup Cuts(PostU1, AbcBytes)
      \cup Cuts(RespFresh, AbcBytes)
      \cup {Sent(RespFresh, AbcdeBytes, FALSE),
            Sent(PostU1, AbcdeBytes, FALSE),
            Sent(GetBadHeader, AbcBytes, FALSE)}
      \cup Cuts(RespToEof, AbcBytes)
      \cup Cuts(RespChunked, ChunkedBytes)
      \cup Cuts(RespChunked, ZeroChunkBytes)
      \cup Cuts(RespLengthThenChunked, ChunkedBytes)
      \cup {Sent(RespChunkedThenLength, ChunkedBytes, TRUE),
            Sent(PostU1Chunked, ChunkedBytes, FALSE),
            Sent(PostU1EmptyThenChunked, ChunkedBytes, FALSE)}

\* std::hex >> contentLength on the lines putContent takes for chunk
\* headers; a line that does not start with a hexadecimal number leaves 0.
HexTable == ( "0\r" :> 0 @@ "3\r" :> 3 @@ "\r" :> 0 @@ "hey\r" :> 0 )

\* What dereferencing the stream iterator past the end of the buffer gives
\* (the behaviour is undefined): a byte of one value or another.
PastTheEnd == {"(ff)", "(00)"}

\* The bytes of a sequence as one string.
RECURSIVE Cat(_)
Cat(bytes) == IF bytes = <<>> THEN "" ELSE Head(bytes) \o Cat(Tail(bytes))

\* A body with the bytes appended (std::string::append, push_back).
Appended(body, bytes) ==
    [data |-> body.data \o Cat(bytes), size |-> body.size + Len(bytes)]

\* An appendBody that takes the bytes the buffer holds, whatever n is.
appendBody_all(body, buf, n, pad) == [body |-> Appended(body, buf), buffer |-> <<>>]

\* HttpParser::appendBody: n times a byte is taken from the stream iterator
\* and pushed to the body, whether the buffer holds n bytes or not.
RECURSIVE appendBody(_, _, _, _)
appendBody(body, buf, n, pad) ==
    IF n = 0 THEN [body |-> body, buffer |-> buf]
    ELSE IF buf = <<>>
    THEN appendBody(Appended(body, <<pad>>), buf, n - 1, pad)
    ELSE appendBody(Appended(body, <<Head(buf)>>), Tail(buf), n - 1, pad)

\* std::getline on the buffer: the bytes before the first line feed are the
\* line, and the line feed is taken with them.
getline(buf) ==
    LET ends == {i \in DOMAIN buf : buf[i] = "\n"}
    IN  IF ends = {}
        THEN [line |-> buf, buffer |-> <<>>]
        ELSE LET p == CHOOSE i \in ends : \A j \in ends : i <= j
             IN  [line |-> Take(buf, p - 1), buffer |-> Drop(buf, p)]

\* HttpParser::putHeader on the empty line that ends the header lines.
endOfHeaders(parser, message) ==
    LET b == hasBody(parser, message)
    IN  IF b = "throw" THEN [parser EXCEPT !.error = "Invalid status code"]
        ELSE [parser EXCEPT !.state = IF b = "yes" THEN "BODY" ELSE "ACCEPT"]

\* A putContent that starts over after a body of known length.
afterSizedBody_start == "START"

\* HttpParser::putContent, case LENGTH: the state after appendBody.
afterSizedBody == "ACCEPT"

\* A putContent that leaves the chunk headers out of the body.
chunkLine_dropped(line) == <<>>

\* HttpParser::putContent, case CHUNKED: what is appended to the body for
\* the line of a chunk header (line + "\n").
chunkLine(line) == line \o <<"\n">>

\* A putContent that accepts at the chunk header of size zero.
putContent_acceptsAtZero(parser, message, buf, pad) ==
    IF parser.format = "PLAIN"
    THEN IF buf # <<>>
         THEN [parser |-> parser,
               message |-> [message EXCEPT !.body = Appended(@, buf)],
               buffer |-> <<>>]
         ELSE [parser |-> [parser EXCEPT !.state = "ACCEPT"],
               message |-> message, buffer |-> buf]
    ELSE IF parser.format = "LENGTH"
    THEN LET a == appendBody(message.body, buf, parser.contentLength, pad)
         IN  [parser |-> [parser EXCEPT !.state = afterSizedBody],
              message |-> [message EXCEPT !.body = a.body],
              buffer |-> a.buffer]
    ELSE IF parser.contentLength = 0
    THEN LET g == getline(buf)
             m == [message EXCEPT
                     !.body = Appended(@, chunkLine(g.line))]
             size == HexTable[Cat(g.line)]
         IN  IF size = 0
             THEN [parser |-> [parser EXCEPT !.state = "ACCEPT"],
                   message |-> m, buffer |-> g.buffer]
             ELSE [parser |-> [parser EXCEPT !.contentLength = size + 2],
                   message |-> m, buffer |-> g.buffer]
    ELSE LET a == appendBody(message.body, buf, parser.contentLength, pad)
         IN  [parser |-> [parser EXCEPT !.contentLength = 0],
              message |-> [message EXCEPT !.body = a.body],
              buffer |-> a.buffer]

\* HttpParser::putContent on the buffer: [parser, message, buffer] after it.
putContent(parser, message, buf, pad) ==
    IF parser.format = "PLAIN"
    THEN IF buf # <<>>
         THEN [parser |-> parser,
               message |-> [message EXCEPT !.body = Appended(@, buf)],
               buffer |-> <<>>]
         ELSE [parser |-> [parser EXCEPT !.state = "ACCEPT"],
               message |-> message, buffer |-> buf]
    ELSE IF parser.format = "LENGTH"
    THEN LET a == appendBody(message.body, buf, parser.contentLength, pad)
         IN  [parser |-> [parser EXCEPT !.state = afterSizedBody],
              message |-> [message EXCEPT !.body = a.body],
              buffer |-> a.buffer]
    ELSE IF parser.contentLength = 0
    THEN LET g == getline(buf)
             m == [message EXCEPT
                     !.body = Appended(@, chunkLine(g.line))]
             size == HexTable[Cat(g.line)]
         IN  IF g.line = <<>> \/ g.line = <<"\r">>
             THEN [parser |-> [parser EXCEPT !.state = "ACCEPT"],
                   message |-> m, buffer |-> g.buffer]
             ELSE [parser |-> [parser EXCEPT !.contentLength =
                                  IF size # 0 THEN size + 2 ELSE 0],
                   message |-> m, buffer |-> g.buffer]
    ELSE LET a == appendBody(message.body, buf, parser.contentLength, pad)
         IN  [parser |-> [parser EXCEPT !.contentLength = 0],
              message |-> [message EXCEPT !.body = a.body],
              buffer |-> a.buffer]

\* HttpParser::parseStep in the states START and HEADER, on the lines of
\* the head that are left: [parser, message, input] after it. Without
\* input putStartLine and putHeader return at once.
parseStep(parser, message, input) ==
    IF input = <<>>
    THEN [parser |-> parser, message |-> message, input |-> input]
    ELSE IF parser.state = "START"
    THEN LET r == putStartLine(parser, message,
                               [startLine |-> Head(input).content])
         IN  [parser |-> r.parser, message |-> r.message,
              input |-> Tail(input)]
    ELSE IF Head(input).kind = "blank"
    THEN [parser |-> endOfHeaders(parser, message), message |-> message,
          input |-> Tail(input)]
    ELSE LET r == putHeader(parser, message, Head(input).content)
         IN  [parser |-> r.parser, message |-> r.message,
              input |-> Tail(input)]

\* The read a Connection has armed: asio::async_read with the completion
\* condition kind ("all", "exactly", "at_least") for n bytes, or
\* async_read_until.
Armed(kind, n) == [kind |-> kind, n |-> n]
NotArmed == Armed("none", 0)

\* Connection::read_sized_body: a read of the bytes of size that the buffer
\* does not hold yet.
read_sized_body(size, buf) ==
    LET held == IF size <= Len(buf) THEN size ELSE Len(buf)
    IN  Armed("exactly", size - held)

\* A Connection with a parser as constructed, about to read its first
\* message: input holds the lines of the head, buffer the bytes the reads
\* of the head took from the socket beyond it, and wire the bytes of the
\* peer that follow. parsing.steps counts the calls of parseStep for the
\* message, parsing.sent keeps what the peer sends, and parsing.before the
\* head of the message the connection read before this one.
Arrives(p, k, parser, messages) ==
    [parser |-> parser, message |-> NoMessage, input |-> Stream(p.head),
     buffer |-> Take(p.bytes, k), wire |-> Drop(p.bytes, k),
     closes |-> p.closes, pc |-> "read_header", armed |-> NotArmed,
     err |-> OK, steps |-> 0, messages |-> messages, sent |-> p,
     reply |-> NoMessage, written |-> "", before |-> NoMessage]

InitParser ==
    /\ workload = "parser"
    /\ Constructed
    /\ task = <<>>
    /\ hist = <<>>
    /\ NoTunnel
    /\ NoServer
    /\ NoLog
    /\ \E p \in ParserInputs : \E k \in 0 .. Len(p.bytes) :
         parsing = Arrives(p, k, NewParser, 1)

\* Connection::read_body, and the reads on_read_chunk_header and
\* on_read_body arm after a call of parseStep.
read_body(parser, buf) ==
    IF parser.format = "PLAIN" THEN [pc |-> "read_body", armed |-> Armed("all", 0)]
    ELSE IF parser.format = "LENGTH"
    THEN [pc |-> "read_body",
          armed |-> read_sized_body(parser.contentLength, buf)]
    ELSE [pc |-> "read_chunk_header", armed |-> NotArmed]

\* Connection::on_read_header for a line of the head: parseStep, then
\* bad_header on a ParseError, read_body, on_read_done, or the read of the
\* next line.
on_read_header ==
    LET r == parseStep(parsing.parser, parsing.message, parsing.input)
        next == IF r.parser.error # ""
                THEN [pc |-> "bad_header", armed |-> NotArmed]
                ELSE IF r.parser.state = "BODY"
                THEN read_body(r.parser, parsing.buffer)
                ELSE IF r.parser.state = "ACCEPT"
                THEN [pc |-> "done", armed |-> NotArmed]
                ELSE [pc |-> "read_header", armed |-> NotArmed]
    IN  /\ parsing.pc = "read_header"
        /\ parsing.input # <<>>
        /\ parsing' = [parsing EXCEPT !.parser = r.parser,
                                      !.message = r.message,
                                      !.input = r.input,
                                      !.pc = next.pc,
                                      !.armed = next.armed,
                                      !.steps = @ + 1]
        /\ UNCHANGED parserVars

\* The completions of the read that is armed: [k, err], the number of
\* bytes that went from the socket to the buffer and the error code.
\* async_read_until completes at once when the buffer holds a line, and
\* otherwise with the read that brings the end of a line, which may bring
\* more; a read the peer does not satisfy completes with eof when the peer
\* closes, and not at all while it does not.
HasLine(bytes) == \E i \in DOMAIN bytes : bytes[i] = "\n"

Completions(pa) ==
    LET all == Len(pa.wire)
        eof == IF pa.closes THEN {[k |-> all, err |-> EOF]} ELSE {}
    IN  IF pa.pc = "read_chunk_header"
        THEN IF HasLine(pa.buffer) THEN {[k |-> 0, err |-> OK]}
             ELSE IF HasLine(pa.wire)
             THEN {[k |-> k, err |-> OK] :
                     k \in {j \in 1 .. all : HasLine(Take(pa.wire, j))}}
             ELSE eof
        ELSE IF pa.armed.kind = "all" THEN eof
        ELSE IF pa.armed.kind = "exactly"
        THEN IF pa.armed.n <= all THEN {[k |-> pa.armed.n, err |-> OK]}
             ELSE eof
        ELSE IF all > 0 THEN {[k |-> k, err |-> OK] : k \in 1 .. all}
        ELSE eof

\* Connection::on_read_chunk_header: it returns on any error, the end of
\* file included; otherwise parseStep, then on_read_done, the read of the
\* chunk, or the read of the next chunk header.
on_read_chunk_header ==
    /\ parsing.pc = "read_chunk_header"
    /\ \E c \in Completions(parsing) : \E pad \in PastTheEnd :
         LET buf == parsing.buffer \o Take(parsing.wire, c.k)
             r == putContent(parsing.parser, parsing.message, buf, pad)
             next == IF r.parser.state = "ACCEPT"
                     THEN [pc |-> "done", armed |-> NotArmed]
                     ELSE IF r.parser.contentLength > 0
                     THEN [pc |-> "read_body",
                           armed |-> read_sized_body(r.parser.contentLength,
                                                     r.buffer)]
                     ELSE [pc |-> "read_chunk_header", armed |-> NotArmed]
         IN  IF c.err # OK
             THEN parsing' = [parsing EXCEPT !.buffer = buf,
                                !.wire = Drop(@, c.k), !.err = c.err,
                                !.pc = "closed", !.armed = NotArmed]
             ELSE parsing' = [parsing EXCEPT !.parser = r.parser,
                                !.message = r.message,
                                !.buffer = r.buffer,
                                !.wire = Drop(@, c.k),
                                !.pc = next.pc, !.armed = next.armed,
                                !.steps = @ + 1]
    /\ UNCHANGED parserVars

\* Connection::on_read_body: it goes on at the end of file; parseStep, then
\* on_read_done when the parser accepts or the file has ended, and
\* otherwise the read of the next chunk header or of more of the body.
on_read_body ==
    /\ parsing.pc = "read_body"
    /\ \E c \in Completions(parsing) : \E pad \in PastTheEnd :
         LET buf == parsing.buffer \o Take(parsing.wire, c.k)
             r == putContent(parsing.parser, parsing.message, buf, pad)
             next == IF r.parser.state = "ACCEPT" \/ c.err = EOF
                     THEN [pc |-> "done", armed |-> NotArmed]
                     ELSE IF r.parser.format = "CHUNKED"
                     THEN [pc |-> "read_chunk_header", armed |-> NotArmed]
                     ELSE [pc |-> "read_body", armed |-> Armed("at_least", 1)]
         IN  parsing' = [parsing EXCEPT !.parser = r.parser,
                           !.message = r.message,
                           !.buffer = r.buffer,
                           !.wire = Drop(@, c.k), !.err = c.err,
                           !.pc = next.pc, !.armed = next.armed,
                           !.steps = @ + 1]
    /\ UNCHANGED parserVars

\* Connection::wait_header between two messages, from on_read_done or from
\* on_write_done when the answer to the message has been written:
\* HttpParser::reset, and the read of the next message, which starts where
\* the bytes of this one ended.
ParserReset ==
    /\ parsing.messages < MaxMessages
    /\ parsing.pc \in {"done", "written"}
    /\ parsing.parser.state = "ACCEPT"
    /\ parsing.buffer = <<>>
    /\ parsing.wire = <<>>
    /\ ~parsing.closes
    /\ \E p \in ParserInputs : \E k \in 0 .. Len(p.bytes) :
         parsing' = [Arrives(p, k, reset(parsing.parser),
                             parsing.messages + 1)
                       EXCEPT !.before = parsing.sent.head]
    /\ UNCHANGED parserVars

\* operator<< for an HttpMessage::StartLine and for an HttpMessage: the
\* text that is put into the buffer.
StartLineText(startLine) ==
    startLine[1] \o " " \o startLine[2] \o " " \o startLine[3]

RECURSIVE HeaderLinesText(_)
HeaderLinesText(lines) ==
    IF lines = <<>> THEN ""
    ELSE Head(lines).key \o ": " \o Head(lines).value \o "\r\n"
           \o HeaderLinesText(Tail(lines))

put_text(message) ==
    StartLineText(message.startLine) \o "\r\n"
      \o HeaderLinesText(message.headerLines) \o "\r\n" \o message.body.data

\* The lines of the head that the parser has not taken, as they are in the
\* buffer when the read that brought the last line brought them too.
RECURSIVE LinesText(_)
LinesText(input) ==
    IF input = <<>> THEN <<>>
    ELSE (IF Head(input).kind = "blank" THEN <<"\r\n">>
          ELSE << Head(input).content.name \o Head(input).content.sep \o " "
                    \o Head(input).content.value \o "\r\n" >>)
           \o LinesText(Tail(input))

\* The messages a ClientConnection is answered with when its request has
\* been read: what the paired RemoteConnection or the cache provides.
Replies == {HTTP200, HTTP502}

\* Connection::write_message on the connection that read a request:
\* HTTP400 from bad_header after a ParseError, or the answer to the request
\* that was read. The message is put into the buffer, behind what the
\* buffer holds, and async_write is started on the buffer.
ConnectionWrite ==
    /\ parsing.pc \in {"done", "bad_header"}
    /\ ~IsHttp(parsing.sent.head.startLine[1])
    /\ \E reply \in (IF parsing.pc = "bad_header" THEN {HTTP400}
                      ELSE Replies) :
       \E unread \in {<<>>, LinesText(parsing.input)} :
         parsing' = [parsing EXCEPT
                       !.pc = "write",
                       !.reply = reply,
                       !.input = <<>>,
                       !.buffer = unread \o @ \o <<put_text(reply)>>]
    /\ UNCHANGED parserVars

\* The completion of the async_write: the bytes of the buffer have gone to
\* the socket and are consumed; then on_write_done.
ConnectionWritten ==
    /\ parsing.pc = "write"
    /\ parsing' = [parsing EXCEPT !.pc = "written",
                                  !.written = Cat(parsing.buffer),
                                  !.buffer = <<>>]
    /\ UNCHANGED parserVars

NextParser ==
    \/ on_read_header
    \/ on_read_chunk_header
    \/ on_read_body
    \/ ParserReset
    \/ ConnectionWrite
    \/ ConnectionWritten

SpecParser == InitParser /\ [][NextParser]_vars

\* ------------------------------- parseResponseCacheInfo on any headers

\* The number of header lines of a response, at most.
MaxHeaders == 3

\* The header lines a response is made of, in any order: the date, the
\* sources of the freshness lifetime, one of them alone, several in one
\* Cache-Control header in either order, one that does not parse.
CacheHeaders ==
    { WH("Date", D0),
      WH("Expires", "Thu, 01 Jan 1970 00:00:02 GMT"),
      WH("Expires", "never"),
      WH("Last-Modified", D0),
      WH("Cache-Control", "max-age=1"),
      WH("Cache-Control", "s-maxage=2"),
      WH("Cache-Control", "s-maxage=2, max-age=1"),
      WH("Cache-Control", "max-age=1, s-maxage=2"),
      WH("Cache-Control", "s-maxage=x, max-age=1") }

\* The values of the clock at which a response is evaluated.
EvaluationTimes == {2, 20}

\* A parser that has read the start line of a 200 response.
InitCacheInfo ==
    /\ workload = "freshness"
    /\ Constructed
    /\ task = <<>>
    /\ hist = <<>>
    /\ NoTunnel
    /\ NoServer
    /\ NoLog
    /\ parsing = [parser |-> [NewParser EXCEPT !.state = "HEADER"],
                  message |-> [NoMessage EXCEPT
                                 !.startLine = <<"HTTP/1.1", "200", "OK">>],
                  pc |-> "headers", ok |-> FALSE,
                  ci |-> NewResponseCacheInfo(0), now_ |-> 0]

\* HttpParser::putHeader for a header line of the response.
PutCacheHeader ==
    /\ parsing.pc = "headers"
    /\ Len(parsing.message.headerLines) < MaxHeaders
    /\ \E h \in CacheHeaders :
         LET r == putHeader(parsing.parser, parsing.message, h)
         IN  parsing' = [parsing EXCEPT !.parser = r.parser,
                                        !.message = r.message]
    /\ UNCHANGED parserVars

\* HttpParser::parseResponseCacheInfo on the headers read, for a
\* ResponseCacheInfo as on_read_done declares it, at a value of the clock.
ParseResponseCacheInfo ==
    /\ parsing.pc = "headers"
    /\ \E garbage \in Indeterminate : \E t \in EvaluationTimes :
         LET r == parseResponseCacheInfo(NewResponseCacheInfo(garbage),
                                         parsing.message, t, t, t)
         IN  parsing' = [parsing EXCEPT !.pc = "parsed", !.ok = r.ok,
                                        !.ci = r.ci, !.now_ = t]
    /\ UNCHANGED parserVars

NextCacheInfo ==
    \/ PutCacheHeader
    \/ ParseResponseCacheInfo

SpecCacheInfo == InitCacheInfo /\ [][NextCacheInfo]_vars

\* --------------------------------------------- HttpUrl on any characters

\* The number of characters of a URL after its first part, at most.
MaxUrlLen == 5

urlVars ==
    <<workload, now, id_counter, cache, mtx, heap, client, remote, tunnel,
      evicted, task, hist, tunnelVars, serverVars, log>>

\* The characters URLs are made of here: of a host, of a port, and the two
\* that HttpUrl::HttpUrl looks for.
UrlChars == {"a", "8", ":", "/"}

Chars(n) == UNION {[1 .. k -> UrlChars] : k \in 0 .. n}

\* The first parts of a URL: the two schemes as strncasecmp accepts them, in
\* either case, a scheme cut short, another scheme, and none.
UrlStarts ==
    { <<"h", "t", "t", "p", ":", "/", "/">>,
      <<"H", "t", "T", "p", ":", "/", "/">>,
      <<"h", "t", "t", "p", "s", ":", "/", "/">>,
      <<"H", "T", "T", "P", "S", ":", "/", "/">>,
      <<"h", "t", "t", "p", ":", "/">>,
      <<"f", "t", "p", ":", "/", "/">>,
      <<>> }

\* The request-URIs of UrlTable, character by character.
TableUrls ==
    { <<"h", "t", "t", "p", ":", "/", "/", "a", "/", "x">>,
      <<"h", "t", "t", "p", ":", "/", "/", "b", "/", "y">>,
      <<"h", "t", "t", "p", ":", "/", "/", "c", "/", "z">>,
      <<"a", ":", "4", "4", "3">> }

UrlInputs ==
    TableUrls \cup {start \o rest : start \in UrlStarts, rest \in Chars(MaxUrlLen)}

\* tolower, as strncasecmp applies it to the characters of the schemes.
LowerTable == ("H" :> "h" @@ "T" :> "t" @@ "P" :> "p" @@ "S" :> "s")

tolower(c) == IF c \in DOMAIN LowerTable THEN LowerTable[c] ELSE c

\* strncasecmp(url.c_str(), scheme, n) == 0, n the length of scheme: the
\* comparison ends at the end of url, which then differs from scheme.
strncasecmp0(url, scheme) ==
    /\ Len(url) >= Len(scheme)
    /\ \A i \in 1 .. Len(scheme) : tolower(url[i]) = scheme[i]

\* std::string::npos.
npos == -1

\* url.find_first_of(chars, from), positions counted from 0.
find_first_of(url, chars, from) ==
    LET found == {pos \in from .. (Len(url) - 1) : url[pos + 1] \in chars}
    IN  IF found = {} THEN npos
        ELSE CHOOSE pos \in found : \A other \in found : pos <= other

\* url.substr(from, n) and url.substr(from), positions counted from 0.
substr(url, from, n) == SubSeq(url, from + 1, from + n)

substr_rest(url, from) == SubSeq(url, from + 1, Len(url))

\* HttpUrl::HttpUrl on the characters of url.
HttpUrl_chars(url) ==
    LET http == strncasecmp0(url, <<"h", "t", "t", "p", ":", "/", "/">>)
        https == strncasecmp0(url, <<"h", "t", "t", "p", "s", ":", "/", "/">>)
        protocol == IF http THEN "HTTP" ELSE IF https THEN "HTTPS" ELSE "NONE"
        last == IF http THEN 7 ELSE IF https THEN 8 ELSE 0
        default == IF protocol = "HTTP" THEN <<"8", "0">>
                   ELSE <<"4", "4", "3">>
        pos == find_first_of(url, {":", "/"}, last)
    IN  IF pos # npos
        THEN IF url[pos + 1] = ":"
             THEN LET pos1 == find_first_of(url, {"/"}, pos + 1)
                  IN  IF pos1 # npos
                      THEN Url(protocol, substr(url, last, pos - last),
                               substr(url, pos + 1, pos1 - pos - 1),
                               substr_rest(url, pos1))
                      ELSE Url(protocol, substr(url, last, pos - last),
                               substr_rest(url, pos + 1), <<"/">>)
             ELSE Url(protocol, substr(url, last, pos - last), default,
                      substr_rest(url, pos))
        ELSE Url(protocol, substr_rest(url, last), default, <<"/">>)

\* A request-URI, before an HttpUrl is made of it.
InitUrl ==
    /\ workload = "url"
    /\ Constructed
    /\ task = <<>>
    /\ hist = <<>>
    /\ NoTunnel
    /\ NoServer
    /\ NoLog
    /\ \E url \in UrlInputs :
         parsing = [pc |-> "url", text |-> url,
                    url |-> Url("NONE", <<>>, <<>>, <<>>)]

\* HttpUrl url(text), as RemoteConnection::start_resolve and url_test
\* construct it.
NewHttpUrl ==
    /\ workload = "url"
    /\ parsing.pc = "url"
    /\ parsing' = [parsing EXCEPT !.pc = "split",
                                  !.url = HttpUrl_chars(parsing.text)]
    /\ UNCHANGED urlVars

NextUrl == NewHttpUrl

SpecUrl == InitUrl /\ [][NextUrl]_vars

\* ------------------------------------------- the log under its writers

\* The number of locked scopes that write to the log, at most.
MaxScopes == 3

logVars ==
    <<workload, now, id_counter, cache, mtx, heap, client, remote, tunnel,
      evicted, task, hist, tunnelVars, serverVars, parsing>>

\* The thread that calls Server::run.
MainThread == 0

\* The scopes of a Server::log_guard, each the writes to Server::log between
\* the construction of the guard and its destruction, in order; std::endl is
\* the write of "\n".  Connection::handle_error for an end of file on a
\* connection with an id and for an error on one without, the scope of
\* RemoteConnection::on_read_done for a stored response, that of
\* RemoteConnection::store_cache for a 304 without a stored response, and
\* that of RemoteConnection::on_read_done for the response received.
LogScopes ==
    { [site |-> "handle_error",
       writes |-> <<"id", ": NOTE connection closed", "\n">>],
      [site |-> "handle_error",
       writes |-> <<"(no-id)", ": ERROR ", "err.message()", "\n">>],
      [site |-> "on_read_done",
       writes |-> <<"id", ": cached, ", "expires at ", "expire", "\n">>],
      [site |-> "store_cache",
       writes |-> <<"id", ": not cachable because the response is 304 and previous cache does not exist">>],
      [site |-> "received",
       writes |-> <<"id", ": Received \"", "startLine", "\" from ",
                    "request_host", "\n">>] }

\* The write of Server::run, made with no log_guard.
ServerStarted == <<"(no-id): NOTE server started", "\n">>

\* What one write leaves in the stream: the text, the thread that wrote it,
\* the scope (or statement) it belongs to, and whether that thread held the
\* mutex of the log.
Written(text, thread, entry, held) ==
    [text |-> text, by |-> thread, entry |-> entry, held |-> held]

\* The log of a constructed Server, before Server::run.
InitLog ==
    /\ workload = "log"
    /\ Constructed
    /\ task = <<>>
    /\ hist = <<>>
    /\ NoTunnel
    /\ NoServer
    /\ NoParsing
    /\ log = [mutex |-> {}, started |-> FALSE, stream |-> <<>>, scopes |-> 0,
              guard |-> [t \in Threads |-> <<>>]]

\* Server::run: the write of the first entry, then the worker threads.
LogServerRun ==
    /\ ~log.started
    /\ log' = [log EXCEPT
                 !.started = TRUE,
                 !.scopes = @ + 1,
                 !.stream = @ \o
                    [i \in DOMAIN ServerStarted |->
                       Written(ServerStarted[i], MainThread, log.scopes + 1,
                               MainThread \in log.mutex)]]
    /\ UNCHANGED logVars

\* The construction of a Server::log_guard by a handler that thread t runs:
\* std::lock_guard locks the mutex, which it waits for while another holds it.
LogGuard(t) ==
    /\ log.started
    /\ log.guard[t] = <<>>
    /\ log.mutex = {}
    /\ log.scopes < MaxScopes
    /\ \E scope \in LogScopes :
         log' = [log EXCEPT
                   !.mutex = {t},
                   !.scopes = @ + 1,
                   !.guard[t] = [scope |-> scope, next |-> 1,
                                 entry |-> log.scopes + 1]]
    /\ UNCHANGED logVars

\* The next write of the scope that thread t is in.
LogWrite(t) ==
    /\ log.guard[t] # <<>>
    /\ log.guard[t].next <= Len(log.guard[t].scope.writes)
    /\ log' = [log EXCEPT
                 !.guard[t].next = @ + 1,
                 !.stream = Append(@,
                    Written(log.guard[t].scope.writes[log.guard[t].next], t,
                            log.guard[t].entry, t \in log.mutex))]
    /\ UNCHANGED logVars

\* The end of the scope: the destruction of the guard unlocks the mutex.
LogGuardExit(t) ==
    /\ log.guard[t] # <<>>
    /\ log.guard[t].next > Len(log.guard[t].scope.writes)
    /\ log' = [log EXCEPT !.mutex = @ \ {t}, !.guard[t] = <<>>]
    /\ UNCHANGED logVars

NextLog ==
    \/ LogServerRun
    \/ \E t \in Threads : LogGuard(t)
    \/ \E t \in Threads : LogWrite(t)
    \/ \E t \in Threads : LogGuardExit(t)

SpecLog == InitLog /\ [][NextLog]_vars

\* ------------------------------------------------------------ properties

\* The step of client c from one position of its handlers to another.
ClientStep(c, from, to) == client[c].pc = from /\ client'[c].pc = to

\* The step in which the RemoteConnection of client c leaves position from.
RemoteLeaves(c, from) == remote[c].pc = from /\ remote'[c].pc # from

\* The header lines of message whose (canonical) name is key.
HeadersNamed(message, key) ==
    {i \in DOMAIN message.headerLines : message.headerLines[i].key = key}

AbsoluteUrls == {U1, U2, U3}

\* C1: a GET is answered from the cache, and no RemoteConnection is made,
\* exactly when the Accessor found an entry whose key is the request URL,
\* neither the request nor the cached response has no_cache, and
\* current_age() < freshness_lifetime; otherwise nothing cached is written
\* and a RemoteConnection with the id of the request is started.
C1_CacheAnswersIffValidHit ==
    [][\A c \in Clients :
         /\ ClientStep(c, "lookup", "decide") =>
              LET url == client[c].message.startLine[2]
                  entry == cache[getEntry(url)]
              IN  /\ client[c].message.startLine[1] = "GET"
                  /\ (client'[c].cached # NULL) <=> (entry.key = url)
                  /\ entry.key = url => client'[c].cached = entry.value
         /\ (client[c].pc = "decide" /\ client'[c].pc # "decide") =>
              LET found == client[c].cached # NULL
                  item == heap[client[c].cached]
                  valid == /\ found
                           /\ ~client[c].no_cache
                           /\ ~item.info.no_cache
                           /\ current_age(item.info, now)
                                 < item.info.freshness_lifetime
              IN  IF valid
                  THEN /\ client'[c].pc = "write"
                       /\ client'[c].written =
                            << [kind |-> "cached", message |-> item.message] >>
                       /\ remote'[c] = remote[c]
                  ELSE /\ client'[c].written = <<>>
                       /\ remote[c].pc = "none"
                       /\ remote'[c].pc = "resolve"
                       /\ remote'[c].id = client[c].id
      ]_vars

\* A client is being sent the response the cache held for its request.
C1_Witness ==
    \E c \in Clients :
        /\ client[c].pc = "write"
        /\ client[c].written # <<>>
        /\ client[c].written[1].kind = "cached"

\* The conditions under which a response may be written into the cache.
\* request is the message of the client, response that of the origin.
MayBeStored(request, response) ==
    /\ request.startLine[1] = "GET"
    /\ response.startLine[2] \in {"200", "304"}
    /\ response.body.size <= 2 * 1024 * 1024
    /\ \E i \in HeadersNamed(response, "Date") :
           parse_date_ok(response.headerLines[i].value)
    /\ \A i \in HeadersNamed(response, "Cache-Control") :
           \A j \in DOMAIN Fields(response.headerLines[i].value) :
               Fields(response.headerLines[i].value)[j].name
                   \notin {"no-store", "private"}

\* C2: a response is written into the cache only if the request is a GET,
\* the status is 200 or 304, the body has at most 2 MiB, the response has a
\* Date that parses, and no Cache-Control header of the response carries
\* no-store or private; when one of these fails, every bucket and every
\* stored item stays as it was and the response is still written to the
\* client.
C2_StoredOnlyIfCacheable ==
    [][\A c \in Clients :
         /\ (RemoteLeaves(c, "store") /\ (cache' # cache \/ heap' # heap))
              => MayBeStored(remote[c].sent, remote[c].message)
         /\ (RemoteLeaves(c, "read_header")
               /\ client'[c].written # client[c].written
               /\ client'[c].written[1].kind = "origin"
               /\ ~MayBeStored(client[c].message,
                               client'[c].written[1].message))
              => /\ remote'[c].pc = "none"
                 /\ cache' = cache /\ heap' = heap
      ]_vars

\* A bucket holds a response one of whose Cache-Control headers is no-store.
C2_Witness ==
    \E i \in Slots :
        /\ cache[i].value # NULL
        /\ \E h \in HeadersNamed(heap[cache[i].value].message, "Cache-Control") :
               heap[cache[i].value].message.headerLines[h].value = "no-store"

\* C3: when the cacheable 200 response to a GET for the absolute URL U is
\* stored, the bucket hash(U) mod N afterwards holds the key U, the URL as
\* the client sent it and not the path the request line was rewritten to,
\* with that response: a lookup of U finds it.
C3_StoredUnderAbsoluteUrl ==
    [][\A c \in Clients :
         (RemoteLeaves(c, "store") /\ remote[c].message.startLine[2] = "200")
           => \E U \in AbsoluteUrls :
                /\ remote[c].sent.startLine[1] = "GET"
                /\ HttpUrl(U).path = remote[c].sent.startLine[2]
                /\ HttpUrl(U).host = remote[c].request_host
                /\ cache'[hasher(U) % CacheSize].key = U
                /\ cache'[hasher(U) % CacheSize].value # NULL
                /\ heap'[cache'[hasher(U) % CacheSize].value].message
                     = remote[c].message
      ]_vars

\* The bucket of U1 holds U1 with a 200 response the origin sent for it.
C3_Witness ==
    /\ cache[hasher(U1) % CacheSize].key = U1
    /\ cache[hasher(U1) % CacheSize].value # NULL
    /\ heap[cache[hasher(U1) % CacheSize].value].message.startLine[2] = "200"
    /\ \E c \in Clients :
          /\ client[c].pc = "write"
          /\ client[c].written[1].kind = "origin"
          /\ client[c].written[1].message
                = heap[cache[hasher(U1) % CacheSize].value].message

\* C4: when store_cache handles a 304 response and the key of the bucket is
\* the request URL, the header lines and the ResponseCacheInfo of the
\* stored item become those of the 304 response; its body and its start
\* line, and the key and value of the bucket, stay as they were.
C4_NotModifiedUpdatesHeadersAndInfo ==
    [][\A c \in Clients :
         LET i == getEntry(remote[c].request_url)
             v == cache[i].value
         IN  /\ (RemoteLeaves(c, "store")
                   /\ remote[c].message.startLine[2] = "304"
                   /\ cache[i].key = remote[c].request_url)
                  => /\ remote'[c].pc = "store_info"
                     /\ heap'[v].message.headerLines
                          = remote[c].message.headerLines
                     /\ heap'[v].message.body = heap[v].message.body
                     /\ heap'[v].message.startLine = heap[v].message.startLine
                     /\ cache' = cache
             /\ RemoteLeaves(c, "store_info")
                  => /\ heap'[v].info = remote[c].ci
                     /\ heap'[v].message = heap[v].message
                     /\ heap'[v].message.headerLines
                          = remote[c].message.headerLines
                     /\ cache' = cache
      ]_vars

\* The item stored for U1 has the start line and body of the 200 response
\* and the header lines and the ETag of the 304 response that followed.
C4_Witness ==
    LET e == cache[hasher(U1) % CacheSize]
    IN  /\ e.key = U1
        /\ e.value # NULL
        /\ mtx[hasher(U1) % CacheSize] = Free
        /\ heap[e.value].message.startLine[2] = "200"
        /\ heap[e.value].message.body = Abc
        /\ Len(heap[e.value].message.headerLines) = 3
        /\ \E h \in HeadersNamed(heap[e.value].message, "Etag") :
               heap[e.value].message.headerLines[h].value = "e2"
        /\ heap[e.value].info.etag = "e2"

\* C5: when store_cache handles a 304 response and the bucket of the
\* request URL is empty or holds another key, also when another URL was
\* stored there after the client looked the URL up, nothing is stored: the
\* key and the value of every bucket and every stored item stay as they
\* were.
C5_NotModifiedWithoutEntryStoresNothing ==
    [][\A c \in Clients :
         (RemoteLeaves(c, "store")
            /\ remote[c].message.startLine[2] = "304"
            /\ cache[getEntry(remote[c].request_url)].key
                 # remote[c].request_url)
           => /\ cache' = cache
              /\ heap' = heap
              /\ remote'[c].pc = "none"
      ]_vars

\* Client 1 revalidated U1, which it had found in the cache, and got 304
\* after the bucket was overwritten with U2: the bucket still holds U2.
C5_Witness ==
    /\ client[1].pc = "write"
    /\ client[1].written[1].kind = "origin"
    /\ client[1].written[1].message.startLine[2] = "304"
    /\ client[1].message.startLine[2] = "/x"
    /\ HeadersNamed(client[1].message, "If-None-Match") # {}
    /\ remote[1].pc = "none"
    /\ cache[hasher(U1) % CacheSize].key = U2

\* C6: a bucket holds one entry. A store sets the key and the value of the
\* bucket of its URL, whatever it held, and leaves the other buckets; a GET
\* for a URL whose bucket holds another key finds nothing, is not answered
\* from the cache and is sent to the origin.
C6_OneEntryPerSlot ==
    [][\A c \in Clients :
         /\ (RemoteLeaves(c, "store")
               /\ remote[c].message.startLine[2] = "200")
              => LET i == hasher(remote[c].request_url) % CacheSize
                 IN  /\ cache'[i].key = remote[c].request_url
                     /\ cache'[i].value # NULL
                     /\ heap'[cache'[i].value].message = remote[c].message
                     /\ \A j \in Slots \ {i} : cache'[j] = cache[j]
                     /\ \A j \in Slots \ {i} :
                          cache[j].value # NULL
                            => heap'[cache[j].value] = heap[cache[j].value]
         /\ (ClientStep(c, "lookup", "decide")
               /\ cache[hasher(client[c].message.startLine[2]) % CacheSize].key
                    # client[c].message.startLine[2])
              => client'[c].cached = NULL
         /\ (client[c].pc = "decide" /\ client'[c].pc # "decide"
               /\ client[c].cached = NULL)
              => /\ client'[c].pc = "wait_remote"
                 /\ client'[c].written = <<>>
                 /\ remote'[c].pc = "resolve"
                 /\ remote'[c].request_url = client[c].message.startLine[2]
      ]_vars

\* U1 was stored, a store of U2 overwrote it, and client 1 now asks the
\* origin for U1, for which it found nothing.
C6_Witness ==
    /\ U1 \in evicted
    /\ cache[hasher(U1) % CacheSize].key = U2
    /\ client[1].pc = "wait_remote"
    /\ remote[1].pc = "resolve"
    /\ remote[1].request_url = U1
    /\ HeadersNamed(client[1].message, "If-None-Match") = {}

\* C9: when the request of a client does not parse, or its protocol is
\* neither HTTP/1.0 nor HTTP/1.1, the canned 400 response is written to the
\* client, and once it is written the connection is closed: no further
\* request is read on it.
C9_BadRequestClosesConnection ==
    [][\A c \in Clients :
         /\ (client[c].pc = "read_header"
               /\ client'[c].pc \notin {"read_header", "closed"}
               /\ (client'[c].parser.error # ""
                     \/ client'[c].message.startLine[3]
                          \notin {"HTTP/1.0", "HTTP/1.1"}))
              => /\ client'[c].pc = "write"
                 /\ client'[c].written
                      = << [kind |-> "canned", message |-> HTTP400] >>
                 /\ remote'[c] = remote[c]
         /\ (client[c].pc = "write" /\ client'[c].pc # "write"
               /\ client[c].written # <<>>
               /\ client[c].written[Len(client[c].written)]
                    = [kind |-> "canned", message |-> HTTP400])
              => client'[c].pc = "closed"
      ]_vars

\* A client whose request had an unsupported protocol is being sent the 400.
C9_Witness ==
    \E c \in Clients :
        /\ client[c].pc = "write"
        /\ client[c].written = << [kind |-> "canned", message |-> HTTP400] >>
        /\ client[c].message.startLine[3] = "HTTP/2.0"

\* C10: when the RemoteConnection of a forwarded request ends, the client
\* was written the response of the origin, or the 200 of the tunnel, or,
\* the remote side having failed (resolve, connect or write error, a
\* response that does not parse, or the origin closing before the response
\* headers are complete), the canned 502 response.
C10_RemoteFailureWrites502 ==
    [][\A c \in Clients :
         (remote[c].pc \in {"resolve", "connect", "write", "read_header"}
            /\ remote'[c].pc = "none")
           => /\ client'[c].pc = "write"
              /\ client'[c].written # <<>>
              /\ LET w == client'[c].written[Len(client'[c].written)]
                 IN  \/ w.kind = "origin"
                     \/ w = [kind |-> "canned", message |-> HTTP200]
                          /\ c \in tunnel'
                     \/ w = [kind |-> "canned", message |-> HTTP502]
      ]_vars

\* The request of a client was forwarded, the origin closed the connection
\* before its response was read, and the client was left without a response.
C10_Witness ==
    \E c \in Clients :
        /\ client[c].pc = "closed"
        /\ client[c].message.startLine[2] = "/x"
        /\ client[c].written = <<>>
        /\ remote[c].pc = "none"

\* C11: for a CONNECT request, when the connect to the origin succeeds the
\* canned 200 response is written to the client and the sockets are given
\* to a Tunnel; when the resolve or the connect fails the canned 502
\* response is written and no Tunnel is made; a Tunnel is made in no other
\* step; and the client of a CONNECT never waits for a request again.
C11_ConnectMakesTunnelOr502 ==
    [][\A c \in Clients :
         LET method == client[c].message.startLine[1]
             last == client'[c].written[Len(client'[c].written)]
         IN  /\ (remote[c].pc \in {"resolve", "connect"}
                   /\ remote'[c].pc = "none" /\ method = "CONNECT")
                  => /\ client'[c].pc = "write"
                     /\ \/ /\ remote[c].pc = "connect"
                           /\ last = [kind |-> "canned", message |-> HTTP200]
                           /\ c \notin tunnel /\ c \in tunnel'
                        \/ /\ last = [kind |-> "canned", message |-> HTTP502]
                           /\ c \notin tunnel'
             /\ (c \in tunnel' /\ c \notin tunnel)
                  => remote[c].pc = "connect" /\ method = "CONNECT"
             /\ c \in tunnel => c \in tunnel'
             /\ (method = "CONNECT" /\ client[c].tunneling
                   /\ client[c].pc # "read_header")
                  => client'[c].pc # "read_header"
      ]_vars

\* The 200 of a CONNECT was written and the sockets are in a Tunnel.
C11_Witness ==
    \E c \in Clients :
        /\ c \in tunnel
        /\ client[c].pc = "tunnel"
        /\ client[c].written = << [kind |-> "canned", message |-> HTTP200] >>
        /\ remote[c].pc = "none"

\* The connect of a CONNECT failed: the 502 was written, no Tunnel exists and
\* the connection is closed.
C11_WitnessFailure ==
    \E c \in Clients :
        /\ c \notin tunnel
        /\ client[c].pc = "closed"
        /\ client[c].tunneling
        /\ client[c].written = << [kind |-> "canned", message |-> HTTP502] >>

\* The elements of a sequence.
Range(seq) == {seq[n] : n \in DOMAIN seq}

\* C12: on a successful CONNECT the client socket carries the whole 200
\* response before any byte relayed from the origin: whatever was written
\* to the client socket is a part of the response from its start, or the
\* whole response followed by relayed bytes.
C12_Response200BeforeRelayedBytes ==
    LET written == net[0].written
        n == Len(Response200)
    IN  IF Len(written) <= n
        THEN written = Take(Response200, Len(written))
        ELSE Take(written, n) = Response200

\* The first async_write_some of the 200 transferred a part of it, the
\* Tunnel relayed a byte of the origin to the client, and the rest of the
\* 200 was never written.
C12_Witness ==
    /\ net[0].written = <<Response200[1], "s1">>
    /\ write200.pc = "failed"
    /\ dir[1].relayed = <<"s1">>

\* The Tunnel is closed: stop has closed both sockets.
TunnelClosed == ~running /\ \A s \in Sides : socket[s] = "closed"

\* C13: when a handler of the Tunnel is called with an error, of a read or
\* of a write, in either direction, both sockets are closed and the Tunnel
\* is closed when the handler returns; and once a handler was called with
\* an error no operation is armed any more.
C13_ErrorClosesTunnel ==
    [][\A d \in Sides :
         /\ (dir[d].pc \in {"on_read", "on_write"} /\ dir[d].err # OK
               /\ dir'[d].pc = "ended")
              => TunnelClosed'
         /\ (\E e \in Sides : dir[e].pc = "ended")
              => dir'[d].armed <= dir[d].armed
      ]_vars

\* The client closed before Tunnel::start had set running: on_read was
\* called with the end of file and closed nothing, and the Tunnel, now
\* running with both sockets open, went on relaying from the origin.
C13_Witness ==
    /\ dir[0].pc = "ended"
    /\ connect.pc = "started"
    /\ running
    /\ \A s \in Sides : socket[s] = "open"
    /\ dir[1].relayed = <<"s1">>
    /\ dir[1].pc = "reading"

\* C14: in each direction d of a Tunnel the bytes written to socket[1 - d]
\* are the first of the bytes read from socket[d], in their order, and the
\* bytes read and not yet written are those of buffer[d]; at most one
\* operation of the direction is armed; and the read is armed again only
\* when every byte read before was written.
C14_RelayInOrderOneOperation ==
    /\ [](\A d \in Sides :
            /\ dir[d].relayed = Take(net[d].read, Len(dir[d].relayed))
            /\ dir[d].relayed \o buffer[d] = net[d].read
            /\ net[1].written = dir[0].relayed
            /\ dir[d].armed \in {0, 1}
            /\ dir[d].armed = 1
                 <=> dir[d].pc \in {"reading", "on_read", "writing", "on_write"})
    /\ [][\A d \in Sides :
            (dir[d].pc # "reading" /\ dir'[d].pc = "reading")
              => /\ dir[d].pc \in {"idle", "on_write"}
                 /\ buffer[d] = <<>>
                 /\ dir[d].relayed = net[d].read
         ]_vars

\* Both directions have relayed the two bytes of their peers, and the read
\* of the client is armed again.
C14_Witness ==
    /\ dir[0].relayed = <<"c1", "c2">>
    /\ dir[1].relayed = <<"s1", "s2">>
    /\ net[1].written = <<"c1", "c2">>
    /\ dir[0].pc = "reading"
    /\ running

\* The message a connection holds when it has read the wire message w.
Parsed(parser, w) ==
    LET h == parseHead(reset(parser), NoMessage, w)
    IN  IF h.parser.state = "BODY"
        THEN readBody(h.parser, h.message, w).message ELSE h.message

\* C15: what is written to the client for a response of the origin is what
\* was received from the origin: whenever the response read is written to
\* the client, the bytes put on the wire for it are the wire message it was
\* parsed from.
C15_ResponseForwardedVerbatim ==
    [][\A c \in Clients :
         (remote[c].pc = "read_header"
            /\ Len(client'[c].written) = Len(client[c].written) + 1
            /\ client'[c].written[Len(client'[c].written)].kind = "origin")
           => LET m == client'[c].written[Len(client'[c].written)].message
              IN  \A w \in ResponsesOf(workload, remote[c].request_host) :
                    Parsed(remote[c].parser, w) = m => put_message(m) = w
      ]_vars

\* The origin sent RespFresh with the header names DATE and ETag, and the
\* client is written a response whose header names are Date and Etag.
C15_Witness ==
    \E c \in Clients :
        /\ client[c].written # <<>>
        /\ LET last == client[c].written[Len(client[c].written)]
           IN  /\ last.kind = "origin"
               /\ last.message = Parsed(NewParser, RespFresh)
               /\ put_message(last.message) # RespFresh
               /\ put_message(last.message).headers[3] = WH("Etag", "e1")
               /\ RespFresh.headers[3] = WH("ETag", "e1")

Validators == {"If-Modified-Since", "If-None-Match"}

\* The header lines that are no validators, in their order.
OtherHeaders(lines) == SelectSeq(lines, LAMBDA h : h.key \notin Validators)

\* C16: when a RemoteConnection is started for a request whose lookup was a
\* miss (no entry or the entry of another key, or a method other than GET,
\* for which there is no lookup), the request it will forward has no
\* If-Modified-Since and no If-None-Match header line, and its other header
\* lines are those of the request read, in their order; and the request
\* forwarded is that request.
C16_MissStripsValidators ==
    [][\A c \in Clients :
         /\ (remote[c].pc = "none" /\ remote'[c].pc = "resolve"
               /\ client[c].pc = "decide" /\ client[c].cached = NULL)
              => /\ HeadersNamed(client'[c].message, "If-Modified-Since") = {}
                 /\ HeadersNamed(client'[c].message, "If-None-Match") = {}
                 /\ client'[c].message.headerLines
                      = OtherHeaders(client[c].message.headerLines)
         /\ (remote[c].pc = "none" /\ remote'[c].pc = "resolve"
               /\ client[c].pc = "read_header")
              => /\ HeadersNamed(client'[c].message, "If-Modified-Since") = {}
                 /\ HeadersNamed(client'[c].message, "If-None-Match") = {}
                 /\ \E w \in RequestsOf(workload, c) :
                      LET m == Parsed(client[c].parser, w)
                      IN  /\ m.startLine[1] = client'[c].message.startLine[1]
                          /\ m.startLine[1] # "GET"
                          /\ m.body = client'[c].message.body
                          /\ client'[c].message.headerLines
                               = OtherHeaders(m.headerLines)
         /\ (remote[c].pc = "connect" /\ remote'[c].pc = "write")
              => remote'[c].sent = client[c].message
      ]_vars

\* The POST with three validators was forwarded with its two other header
\* lines only.
C16_Witness ==
    /\ remote[1].pc = "write"
    /\ remote[1].sent.startLine = <<"POST", "/x", "HTTP/1.1">>
    /\ remote[1].sent.headerLines
         = << [key |-> "Content-Length", value |-> "3"],
              [key |-> "Host", value |-> "a"] >>

\* The GET with three validators found no entry and was forwarded with its
\* Host header line only.
C16_WitnessGet ==
    /\ remote[1].pc = "write"
    /\ remote[1].sent.startLine = <<"GET", "/x", "HTTP/1.1">>
    /\ remote[1].sent.headerLines = << [key |-> "Host", value |-> "a"] >>

\* C17: when a GET finds the entry of its URL and the cached response is
\* not used (it is stale or needs validation), the request that will be
\* forwarded has an If-None-Match header line with the Etag of the cached
\* response when that is not empty, and an If-Modified-Since header line
\* with its Last-Modified date when it has one; and what is then written to
\* the client is the response read from the origin, a 304 included.
C17_StaleHitForwardsCachedValidators ==
    [][\A c \in Clients :
         /\ (client[c].pc = "decide" /\ client[c].cached # NULL
               /\ remote'[c].pc = "resolve")
              => LET ri == heap[client[c].cached].info
                     m == client'[c].message
                 IN  /\ ri.etag # ""
                          => \E i \in HeadersNamed(m, "If-None-Match") :
                                 m.headerLines[i].value = ri.etag
                     /\ ri.last_modified # None
                          => \E i \in HeadersNamed(m, "If-Modified-Since") :
                                 m.headerLines[i].value
                                   = put_date(ri.last_modified[1])
         /\ (remote[c].pc = "read_header" /\ client'[c].pc = "write"
               /\ client'[c].written[Len(client'[c].written)].kind = "origin")
              => \E w \in ResponsesOf(workload, remote[c].request_host) :
                   client'[c].written[Len(client'[c].written)].message
                     = Parsed(remote[c].parser, w)
      ]_vars

\* Client 1 found the entry of U1, whose response has the Etag "e1", stale;
\* meanwhile the response of U2 replaced the entry, and the request for U1
\* is forwarded without an If-None-Match header line.
C17_Witness ==
    /\ client[1].pc = "wait_remote"
    /\ remote[1].pc = "resolve"
    /\ client[1].message.startLine = <<"GET", "/x", "HTTP/1.1">>
    /\ HeadersNamed(client[1].message, "If-None-Match") = {}
    /\ evicted = {U1}
    /\ cache[getEntry(U1)].key = U2

\* C18: the id of a request is not 0; the ids of the requests that different
\* connections are serving differ, and each id that is assigned is greater
\* than every id assigned before, on this connection or another; and the
\* RemoteConnection of a request has, for all its life, the id its client
\* had when it started it.
C18_RequestIdsUniqueIncreasing ==
    /\ [](\A c \in Clients :
            /\ client[c].id <= id_counter
            /\ client[c].pc \notin {"accept", "closed"} => client[c].id # 0
            /\ \A d \in Clients \ {c} :
                 client[c].id # 0 => client[c].id # client[d].id
            /\ remote[c].pc # "none"
                 => remote[c].id # 0 /\ remote[c].id <= client[c].id)
    /\ [][\A c \in Clients :
            /\ client'[c].id # client[c].id
                 => /\ client'[c].id > id_counter
                    /\ client'[c].id > client[c].id
                    /\ id_counter' = client'[c].id
            /\ (remote[c].pc = "none" /\ remote'[c].pc # "none")
                 => remote'[c].id = client[c].id /\ client'[c].id = client[c].id
            /\ (remote[c].pc # "none" /\ remote'[c].pc # "none")
                 => remote'[c].id = remote[c].id
         ]_vars

\* Both clients are at their second request, with different ids, while the
\* RemoteConnection of the first request of client 1, about to store the
\* response, still has the id of that request.
C18_Witness ==
    /\ client[1].id > 2 /\ client[2].id > 2
    /\ client[1].id # client[2].id
    /\ client[1].pc = "lookup" /\ client[2].pc = "read_header"
    /\ remote[1].pc = "store"
    /\ remote[1].id \in {1, 2}

\* C19: Server::finish, the handler of SIGINT and SIGTERM, closes the
\* acceptor and stops the io_service; once the acceptor is closed it stays
\* closed and no connection is accepted; and after the signal is received
\* every worker thread leaves its loop and Server::run returns.
C19_SignalStopsServer ==
    /\ [][/\ (\E t \in Threads : pool[t] = "finish_stop" /\ pool'[t] = "run")
               => server'.acceptor = "closed" /\ server'.stopped
          /\ server.acceptor = "closed"
               => /\ server'.acceptor = "closed"
                  /\ server'.accepted = server.accepted
                  /\ server'.accept = "ok" => server.accept = "ok"
          /\ server.stopped => server'.stopped
         ]_vars
    /\ (server.signal # "waiting")
         ~> (server.main = "returned" /\ \A t \in Threads : pool[t] = "exited")

\* Two connections were accepted and served, the signal was handled, and
\* Server::run has returned.
C19_Witness ==
    /\ server.main = "returned"
    /\ server.signal = "done"
    /\ server.accepted = 2
    /\ server.armed > 0
    /\ \A t \in Threads : pool[t] = "exited"

\* The place of a state of the parser in the order START, HEADER, BODY,
\* ACCEPT.
Rank(state) ==
    CASE state = "START" -> 0 [] state = "HEADER" -> 1
      [] state = "BODY" -> 2 [] state = "ACCEPT" -> 3

\* C20: a call of parseStep that raises no error leaves the state of the
\* parser where it was or moves it forward in the order START, HEADER,
\* BODY, ACCEPT, by one state, or from HEADER to ACCEPT when the message
\* has no body.
C20_ParserStateMovesForward ==
    [][(parsing'.steps = parsing.steps + 1 /\ parsing'.parser.error = "")
         => LET from == Rank(parsing.parser.state)
                to == Rank(parsing'.parser.state)
            IN  /\ to >= from
                /\ \/ to <= from + 1
                   \/ /\ parsing.parser.state = "HEADER"
                      /\ parsing'.parser.state = "ACCEPT"
                      /\ parsing'.message.body = NoBody
                      /\ parsing'.input = <<>>
      ]_vars

\* The parser has read the chunked response through all four states, in
\* seven calls of parseStep, as the second message of its connection.
C20_Witness ==
    /\ parsing.messages = 2
    /\ parsing.parser.state = "ACCEPT"
    /\ parsing.parser.format = "CHUNKED"
    /\ parsing.steps = 7
    /\ parsing.message.body.size = 13

\* The parser went from HEADER to ACCEPT at the end of the headers of a 304
\* response.
C20_WitnessSkip ==
    /\ parsing.parser.state = "ACCEPT"
    /\ parsing.message.startLine[2] = "304"
    /\ parsing.steps = 5

\* C21: HttpParser::reset leaves the parser in state START with format
\* PLAIN and contentLength 0, and its message with empty start-line fields,
\* no headers and an empty body, whatever was parsed before.
C21_ResetRestoresDefaults ==
    [][ParserReset
         => /\ parsing'.parser.state = "START"
            /\ parsing'.parser.format = "PLAIN"
            /\ parsing'.parser.contentLength = 0
            /\ parsing'.message = NoMessage
      ]_vars

\* The parser has been reset after a message with Content-Length 3: the
\* message is empty and the state is START, the format is still LENGTH and
\* contentLength still 3.
C21_Witness ==
    /\ parsing.messages = 2
    /\ parsing.steps = 0
    /\ parsing.parser.state = "START"
    /\ parsing.message = NoMessage
    /\ parsing.parser.format = "LENGTH"
    /\ parsing.parser.contentLength = 3

\* The message has a Content-Length header and a Transfer-Encoding header
\* whose value contains chunked.
BothFramings(message) ==
    /\ HeadersNamed(message, "Content-Length") # {}
    /\ \E i \in DOMAIN message.headerLines :
         /\ message.headerLines[i].key = "Transfer-Encoding"
         /\ message.headerLines[i].value \in ContainsChunked

\* C22: at the end of the headers of a message that has both a
\* Content-Length header and a Transfer-Encoding header containing chunked,
\* the format of the parser is CHUNKED, whichever header came first.
C22_ChunkedWinsOverLength ==
    (/\ parsing.input = <<>>
     /\ parsing.parser.error = ""
     /\ BothFramings(parsing.message))
        => parsing.parser.format = "CHUNKED"

\* The headers Transfer-Encoding: chunked and Content-Length: 3 have been
\* read in this order, and the parser waits for a body of 3 bytes.
C22_Witness ==
    /\ parsing.input = <<>>
    /\ parsing.parser.state = "BODY"
    /\ Len(parsing.message.headerLines) = 2
    /\ parsing.message.headerLines[1].key = "Transfer-Encoding"
    /\ parsing.message.headerLines[2].key = "Content-Length"
    /\ parsing.parser.format = "LENGTH"
    /\ parsing.parser.contentLength = 3
    /\ parsing.armed.kind = "exactly"

\* A handler of the Connection can run.
ReadCanComplete == ENABLED (on_read_header \/ on_read_chunk_header \/ on_read_body)

\* C23: for a response in chunked encoding (Transfer-Encoding: chunked and
\* no Content-Length, read by the parser of a new RemoteConnection) whose
\* bytes all arrive, the reading goes on until on_read_done, where the
\* parser is in ACCEPT and the body is the chunk framing as it was sent,
\* size lines, chunk data, line ends and the last chunk; the body written
\* to the client is the same; and at every moment the body and the bytes
\* not yet parsed are together the bytes sent, in order.
C23_ChunkedBodyVerbatim ==
    (/\ parsing.messages = 1
     /\ parsing.sent.head = RespChunked
     /\ parsing.sent.bytes = ChunkedBytes)
        => /\ parsing.parser.error = ""
           /\ Appended(parsing.message.body, parsing.buffer \o parsing.wire)
                 = Appended(NoBody, ChunkedBytes)
           /\ IF parsing.pc = "done"
              THEN /\ parsing.parser.state = "ACCEPT"
                   /\ parsing.message.body = Appended(NoBody, ChunkedBytes)
                   /\ put_message(parsing.message).body
                         = Appended(NoBody, ChunkedBytes)
              ELSE /\ parsing.pc \in {"read_header", "read_chunk_header",
                                      "read_body"}
                   /\ ReadCanComplete

\* The chunked response has been read in seven calls of parseStep, the
\* bytes of the body coming from the socket after the head, and
\* on_read_done has the body of 13 bytes.
C23_Witness ==
    /\ parsing.messages = 1
    /\ parsing.sent.head = RespChunked
    /\ parsing.sent.bytes = ChunkedBytes
    /\ parsing.pc = "done"
    /\ parsing.steps = 7
    /\ parsing.message.body.size = 13
    /\ parsing.message.body.data = "3\r\nhey\r\n0\r\n\r\n"

\* C24: a message whose headers declare Content-Length n, read with LENGTH
\* framing, and of whose body at least n bytes arrive, is read until
\* on_read_done, where the parser is in ACCEPT and the body is the n bytes
\* that followed the empty line, no more and no fewer; bytes after them
\* stay where they were until an answer is written.
C24_SizedBodyExact ==
    LET n == parsing.parser.contentLength
    IN  (/\ parsing.input = <<>>
         /\ parsing.parser.error = ""
         /\ HeadersNamed(parsing.message, "Content-Length") # {}
         /\ parsing.parser.format = "LENGTH"
         /\ hasBody(parsing.parser, parsing.message) = "yes"
         /\ Len(parsing.sent.bytes) >= n)
            => IF parsing.pc \in {"done", "write", "written"}
               THEN /\ parsing.parser.state = "ACCEPT"
                    /\ parsing.message.body
                          = Appended(NoBody, Take(parsing.sent.bytes, n))
                    /\ parsing.pc = "done" =>
                          parsing.buffer \o parsing.wire
                             = Drop(parsing.sent.bytes, n)
               ELSE /\ parsing.pc = "read_body"
                    /\ parsing.message.body = NoBody
                    /\ ReadCanComplete

\* A response with Content-Length 3 whose origin sent five bytes after the
\* head, all of them in the buffer when the body was parsed: the body is
\* the first three, and two bytes are left in the buffer.
C24_Witness ==
    /\ parsing.sent = Sent(RespFresh, AbcdeBytes, FALSE)
    /\ parsing.pc = "done"
    /\ parsing.parser.state = "ACCEPT"
    /\ parsing.message.body = Abc
    /\ parsing.buffer = <<"d", "e">>

\* C25: when the origin closes the connection in the middle of the body of
\* a response, the response is still delivered (the reading ends in
\* on_read_done, never in a handler that returns on the end of file), and
\* the body delivered is the bytes received before the close, with nothing
\* after them, for PLAIN, LENGTH and CHUNKED framing alike.
C25_TruncatedBodyDelivered ==
    (/\ parsing.sent.closes
     /\ IsHttp(parsing.sent.head.startLine[1])
     /\ parsing.input = <<>>
     /\ parsing.parser.error = ""
     /\ hasBody(parsing.parser, parsing.message) = "yes")
        => /\ parsing.pc # "closed"
           /\ parsing.pc = "done"
                 => parsing.message.body
                       = Appended(NoBody, parsing.sent.bytes)

\* The origin closed after one of the three bytes of a body with
\* Content-Length 3: on_read_done has a body of three bytes, the byte
\* received and two that appendBody read past the end of the buffer.
C25_Witness ==
    /\ parsing.sent = Sent(RespFresh, <<"a">>, TRUE)
    /\ parsing.messages = 1
    /\ parsing.pc = "done"
    /\ parsing.err = EOF
    /\ parsing.message.body.size = 3
    /\ parsing.message.body.data = "a(ff)(ff)"

\* The origin closed inside the first chunk header of a chunked response:
\* on_read_chunk_header returned on the end of file, no read is armed and
\* on_read_done was not called.
C25_WitnessChunked ==
    /\ parsing.sent = Sent(RespChunked, <<"3">>, TRUE)
    /\ parsing.pc = "closed"
    /\ parsing.err = EOF
    /\ parsing.armed = NotArmed

\* The values that directive name has, with a number that parses, in the
\* Cache-Control headers of the message.
DirectiveValues(message, name) ==
    UNION {{parseDeltaSeconds(f.arg) :
              f \in {f \in Range(Fields(message.headerLines[i].value)) :
                        f.name = name /\ parseDeltaSeconds_ok(f.arg)}} :
           i \in HeadersNamed(message, "Cache-Control")}

\* The times that the headers named key of the message give, where they
\* parse.
DateValues(message, key) ==
    {parse_date(message.headerLines[i].value) :
       i \in {i \in HeadersNamed(message, key) :
                parse_date_ok(message.headerLines[i].value)}}

\* C26: the freshness lifetime of a response that parseResponseCacheInfo
\* accepts is the value of s-maxage when the response has one that parses;
\* otherwise that of max-age; otherwise Expires minus Date; otherwise a
\* tenth of the time since Last-Modified; whatever the order of the
\* directives and of the header lines.
C26_FreshnessPrecedence ==
    LET m == parsing.message
        lifetime == parsing.ci.freshness_lifetime
    IN  (parsing.pc = "parsed" /\ parsing.ok)
           => IF DirectiveValues(m, "s-maxage=") # {}
              THEN lifetime \in DirectiveValues(m, "s-maxage=")
              ELSE IF DirectiveValues(m, "max-age=") # {}
              THEN lifetime \in DirectiveValues(m, "max-age=")
              ELSE IF DateValues(m, "Expires") # {}
              THEN lifetime \in {e - d : e \in DateValues(m, "Expires"),
                                         d \in DateValues(m, "Date")}
              ELSE IF DateValues(m, "Last-Modified") # {}
              THEN lifetime \in {quot(parsing.now_ - l, 10) :
                                    l \in DateValues(m, "Last-Modified")}
              ELSE TRUE

\* A response with the headers Cache-Control: s-maxage=2, Date and
\* Cache-Control: max-age=1 has been evaluated: its lifetime is 1.
C26_Witness ==
    /\ parsing.pc = "parsed"
    /\ parsing.ok
    /\ Len(parsing.message.headerLines) = 3
    /\ parsing.message.headerLines[1].value = "s-maxage=2"
    /\ parsing.message.headerLines[3].value = "max-age=1"
    /\ parsing.ci.freshness_lifetime = 1

\* A Cache-Control header of the message contains max-age=0.
ContainsMaxAge0(message) ==
    \E i \in HeadersNamed(message, "Cache-Control") :
        Dir("max-age=", "0") \in Range(Fields(message.headerLines[i].value))

\* C27: a stored response whose Cache-Control contains max-age=0 is stale
\* at every lookup: no request is answered with it from the cache without
\* contacting the origin.
C27_MaxAgeZeroNeverServed ==
    [][\A c \in Clients :
         (/\ client[c].pc = "decide"
          /\ client'[c].pc = "write"
          /\ client'[c].written # <<>>
          /\ client'[c].written[Len(client'[c].written)].kind = "cached")
           => ~ContainsMaxAge0(
                  client'[c].written[Len(client'[c].written)].message)
      ]_vars

\* A client is answered from the cache with a response whose first
\* Cache-Control header is max-age=0 and whose second is public.
C27_Witness ==
    \E c \in Clients :
       /\ client[c].pc = "write"
       /\ client[c].written # <<>>
       /\ client[c].written[1].kind = "cached"
       /\ put_message(client[c].written[1].message) = RespMaxAge0ThenPublic

\* The writes of the stream after which a line ends.
EndsLine(i) == log.stream[i].text = "\n"

\* C28: every write to the log is made by a thread that holds the mutex of
\* the log, every scope that has ended left a newline as its last write, and
\* a line ends in the log exactly where the writes of one scope are followed
\* by those of another: the log is made of whole lines, one entry each.
C28_LogWholeLines ==
    workload = "log" =>
        /\ \A i \in DOMAIN log.stream : log.stream[i].held
        /\ (log.mutex = {} /\ log.stream # <<>>) => EndsLine(Len(log.stream))
        /\ \A i \in 1 .. (Len(log.stream) - 1) :
             (log.stream[i].entry # log.stream[i + 1].entry) <=> EndsLine(i)

\* C28 witness: the scope of store_cache has ended and another thread has
\* written its entry after it, on the same line.
C28_Witness ==
    /\ workload = "log"
    /\ \E i \in 1 .. (Len(log.stream) - 1) :
         /\ log.stream[i].by \in Threads
         /\ log.stream[i + 1].by \in Threads \ {log.stream[i].by}
         /\ log.stream[i].held /\ log.stream[i + 1].held
         /\ ~EndsLine(i)
    /\ log.mutex = {}
    /\ EndsLine(Len(log.stream))

\* The position of the first c in chars, 0 when there is none.
FirstOf(chars, c) ==
    IF \E i \in DOMAIN chars : chars[i] = c
    THEN CHOOSE i \in DOMAIN chars :
           chars[i] = c /\ \A j \in 1 .. (i - 1) : chars[j] # c
    ELSE 0

\* What follows the scheme of the request-URI that was split.
AfterScheme ==
    LET skip == CASE parsing.url.protocol = "HTTP" -> 7
                  [] parsing.url.protocol = "HTTPS" -> 8
                  [] OTHER -> 0
    IN  SubSeq(parsing.text, skip + 1, Len(parsing.text))

\* Its part before the first '/': the host, and the port when one is given.
Authority ==
    IF FirstOf(AfterScheme, "/") = 0 THEN AfterScheme
    ELSE SubSeq(AfterScheme, 1, FirstOf(AfterScheme, "/") - 1)

\* C29: of every request-URI, HttpUrl makes a host that is not empty and a
\* path that begins with '/'; the port is the text between the ':' and the
\* next '/' when there is one, else 80 for http and 443 for https; the path
\* is "/" when the request-URI has none.
C29_UrlSplit ==
    (workload = "url" /\ parsing.pc = "split") =>
        LET url == parsing.url
            slash == FirstOf(AfterScheme, "/")
            colon == FirstOf(Authority, ":")
        IN  /\ url.host # <<>>
            /\ url.path # <<>> /\ Head(url.path) = "/"
            /\ colon # 0 =>
                 url.port = SubSeq(Authority, colon + 1, Len(Authority))
            /\ (colon = 0 /\ url.protocol = "HTTP") => url.port = <<"8", "0">>
            /\ (colon = 0 /\ url.protocol = "HTTPS") =>
                 url.port = <<"4", "4", "3">>
            /\ slash = 0 => url.path = <<"/">>
            /\ slash # 0 =>
                 url.path = SubSeq(AfterScheme, slash, Len(AfterScheme))

\* C29 witness: an HttpUrl made of an http request-URI with a path and
\* nothing between the scheme and the path; its host is empty.
C29_Witness ==
    /\ workload = "url"
    /\ parsing.pc = "split"
    /\ parsing.url.protocol = "HTTP"
    /\ parsing.url.host = <<>>
    /\ parsing.url.port = <<"8", "0">>
    /\ parsing.url.path = <<"/", "a">>

\* The step of on_read_header that parses the empty line after the header
\* lines of a message.
EndOfHeadersStep ==
    /\ workload = "parser"
    /\ parsing.pc = "read_header"
    /\ parsing.parser.state = "HEADER"
    /\ parsing.input # <<>>
    /\ Head(parsing.input).kind = "blank"
    /\ parsing' # parsing

\* The statuses of the responses that have no body.
NoBodyStatus(status) ==
    StatusInfo(status).first = "1" \/ status \in {"204", "304"}

\* The header lines of message say that a body follows: a Content-Length
\* that is positive, or a Transfer-Encoding with chunked in it.
FramingHeaders(message) ==
    \/ \E i \in HeadersNamed(message, "Content-Length") :
         /\ message.headerLines[i].value \in DOMAIN SizeTable
         /\ SizeTable[message.headerLines[i].value] > 0
    \/ \E i \in HeadersNamed(message, "Transfer-Encoding") :
         message.headerLines[i].value \in ContainsChunked

\* C30: at the end of the header lines a response goes to ACCEPT when its
\* status starts with '1' or is 204 or 304 and to BODY otherwise; a request
\* goes to BODY only if its header lines say that a body follows, and to
\* ACCEPT otherwise.
C30_HasBodyDecision ==
    [][EndOfHeadersStep =>
         IF IsHttp(parsing.message.startLine[1])
         THEN parsing'.parser.state =
                IF NoBodyStatus(parsing.message.startLine[2])
                THEN "ACCEPT" ELSE "BODY"
         ELSE /\ parsing'.parser.state \in {"BODY", "ACCEPT"}
              /\ parsing'.parser.state = "BODY" =>
                   FramingHeaders(parsing.message)]_vars

\* C30 witness: the second request of a connection, a GET with no framing
\* header after a POST with a body, is in BODY at the end of its header lines.
C30_Witness ==
    /\ workload = "parser"
    /\ parsing.messages = 2
    /\ parsing.sent.head = GetU1
    /\ parsing.message.headerLines # <<>>
    /\ ~FramingHeaders(parsing.message)
    /\ parsing.input = <<>>
    /\ parsing.parser.state = "BODY"
    /\ parsing.pc = "read_body"

\* The header lines of message have a Content-Length of 0.
HasLengthZero(message) ==
    \E i \in HeadersNamed(message, "Content-Length") :
       message.headerLines[i].value = "0"

\* Content-Length: 0 is the only framing header of message.
OnlyLengthZero(message) ==
    /\ HasLengthZero(message)
    /\ Cardinality(HeadersNamed(message, "Content-Length")) = 1
    /\ HeadersNamed(message, "Transfer-Encoding") = {}

\* C31 as stated: every message with Content-Length: 0 among its headers,
\* request or response, is in ACCEPT after the parse step that reads the
\* empty line.
C31_LengthZeroToAccept ==
    [][(EndOfHeadersStep /\ HasLengthZero(parsing.message)) =>
         parsing'.parser.state = "ACCEPT"]_vars

\* C31 amended: a request whose only framing header is Content-Length: 0
\* goes from HEADER to ACCEPT on the parse step that reads the empty line,
\* and so does such a response whose status starts with '1' or is 204 or
\* 304; such a response with another status of three characters goes to
\* BODY, a read of no bytes is armed, and the next parse step leaves it in
\* ACCEPT with an empty body and nothing taken from the socket.
C31_LengthZeroAmended ==
    [][/\ (EndOfHeadersStep /\ OnlyLengthZero(parsing.message)) =>
            IF \/ ~IsHttp(parsing.message.startLine[1])
               \/ NoBodyStatus(parsing.message.startLine[2])
            THEN parsing'.parser.state = "ACCEPT" /\ parsing'.pc = "done"
            ELSE StatusInfo(parsing.message.startLine[2]).size = 3 =>
                   /\ parsing'.parser.state = "BODY"
                   /\ parsing'.pc = "read_body"
                   /\ parsing'.armed = Armed("exactly", 0)
       /\ (/\ workload = "parser"
           /\ parsing.pc = "read_body"
           /\ OnlyLengthZero(parsing.message)
           /\ parsing' # parsing) =>
            /\ parsing'.parser.state = "ACCEPT"
            /\ parsing'.pc = "done"
            /\ parsing'.message.body = NoBody
            /\ parsing'.wire = parsing.wire
            /\ parsing'.buffer = parsing.buffer]_vars

\* C31 witness: a POST with Content-Length: 0 is accepted after the three
\* parse steps of its start line, its header line and the empty line.
C31_Witness ==
    /\ workload = "parser"
    /\ parsing.sent.head = PostU1Empty
    /\ OnlyLengthZero(parsing.message)
    /\ parsing.steps = 3
    /\ parsing.pc = "done"
    /\ parsing.parser.state = "ACCEPT"

\* The parse step of on_read_chunk_header in BODY with CHUNKED framing and
\* contentLength 0, and the line that getline takes in it: the bytes that
\* leave the buffer and the socket, without the "\n".
ChunkHeaderStep ==
    /\ workload = "parser"
    /\ parsing.pc = "read_chunk_header"
    /\ parsing.parser.state = "BODY"
    /\ parsing.parser.format = "CHUNKED"
    /\ parsing.parser.contentLength = 0
    /\ parsing'.steps = parsing.steps + 1

LineRead ==
    LET before == parsing.buffer \o parsing.wire
        taken == Len(before) - Len(parsing'.buffer \o parsing'.wire)
    IN  Take(before, taken - 1)

\* C32 as stated: the parse step that reads the chunk-size line of size 0
\* leaves the parser in ACCEPT.
C32_ZeroChunkAccepts ==
    [][(ChunkHeaderStep /\ LineRead = <<"0", "\r">>) =>
         parsing'.parser.state = "ACCEPT"]_vars

\* C32 amended: the parse step that reads the chunk-size line of size 0
\* leaves the parser in BODY with contentLength 0 and the next chunk header
\* is read; the parse step that reads the empty line after it leaves the
\* parser in ACCEPT; and a chunked message that is one chunk of size zero
\* and the empty line after it ends in on_read_done, in ACCEPT, with these
\* five bytes as its body.
C32_ZeroChunkAmended ==
    [][/\ (ChunkHeaderStep /\ LineRead = <<"0", "\r">>) =>
            /\ parsing'.parser.state = "BODY"
            /\ parsing'.parser.contentLength = 0
            /\ parsing'.pc = "read_chunk_header"
            /\ parsing'.message.body =
                 Appended(parsing.message.body, <<"0", "\r", "\n">>)
       /\ (ChunkHeaderStep /\ LineRead = <<"\r">>) =>
            /\ parsing'.parser.state = "ACCEPT"
            /\ parsing'.pc = "done"
       /\ (/\ workload = "parser"
           /\ parsing.sent.head = RespChunked
           /\ parsing.sent.bytes = ZeroChunkBytes
           /\ parsing.pc # parsing'.pc
           /\ parsing'.pc \notin {"read_header", "read_chunk_header",
                                  "read_body"}) =>
            /\ parsing'.pc = "done"
            /\ parsing'.parser.state = "ACCEPT"
            /\ parsing'.message.body = Appended(NoBody, ZeroChunkBytes)]_vars

\* C32 witness: the chunked response that is one chunk of size zero has
\* been read, its two lines in two parse steps after the three of the head.
C32_Witness ==
    /\ workload = "parser"
    /\ parsing.messages = 1
    /\ parsing.sent.head = RespChunked
    /\ parsing.sent.bytes = ZeroChunkBytes
    /\ parsing.steps = 5
    /\ parsing.pc = "done"
    /\ parsing.parser.state = "ACCEPT"
    /\ parsing.message.body = Appended(NoBody, ZeroChunkBytes)

\* The message has a Date header and nothing that gives a freshness
\* lifetime: no s-maxage, no max-age, no Expires and no Last-Modified.
NoLifetimeInfo(message) ==
    /\ HeadersNamed(message, "Date") # {}
    /\ HeadersNamed(message, "Expires") = {}
    /\ HeadersNamed(message, "Last-Modified") = {}
    /\ \A i \in HeadersNamed(message, "Cache-Control") :
         \A f \in Range(Fields(message.headerLines[i].value)) :
            f.name \notin {"s-maxage=", "max-age="}

\* C33: the ResponseCacheInfo stored with a response that has a Date and
\* nothing that gives a freshness lifetime has the freshness lifetime zero,
\* and no request is answered with such a response from the cache.
C33_NoLifetimeIsZero ==
    /\ \A s \in Slots :
         (cache[s].value # NULL /\ NoLifetimeInfo(heap[cache[s].value].message))
            => heap[cache[s].value].info.freshness_lifetime = 0
    /\ \A c \in Clients : \A k \in DOMAIN client[c].written :
         client[c].written[k].kind = "cached"
            => ~NoLifetimeInfo(client[c].written[k].message)

\* C33 witness: a response with Date and Content-Length alone is stored,
\* with the lifetime its ResponseCacheInfo happened to hold, and a later
\* request for its URL is answered with it from the cache.
C33_Witness ==
    \E c \in Clients :
       /\ client[c].pc = "write"
       /\ client[c].written # <<>>
       /\ client[c].written[Len(client[c].written)].kind = "cached"
       /\ put_message(client[c].written[Len(client[c].written)].message)
             = RespDateOnly
       /\ \E s \in Slots :
            /\ cache[s].value # NULL
            /\ NoLifetimeInfo(heap[cache[s].value].message)
            /\ heap[cache[s].value].info.freshness_lifetime \in Indeterminate \ {0}

\* The ResponseCacheInfo of the item is the one of its header lines: the
\* etag is the value of its Etag header and the freshness lifetime that of
\* its max-age.
OneVersion(item) ==
    /\ \E i \in HeadersNamed(item.message, "Etag") :
         item.message.headerLines[i].value = item.info.etag
    /\ item.info.freshness_lifetime
         \in DirectiveValues(item.message, "max-age=")

\* The step of check_cached and write_message in which client c is answered
\* from the cache.
ServedFromCache(c) ==
    /\ client[c].pc = "decide"
    /\ client[c].cached # NULL
    /\ client'[c].pc = "write"
    /\ client'[c].written # <<>>
    /\ client'[c].written[Len(client'[c].written)].kind = "cached"

\* C34: when a client is answered from the cache, no store_cache is
\* modifying the item it reads, and the ResponseCacheInfo it evaluates and
\* the header lines and the body it writes are those of one stored version
\* of the entry.
C34_ConsistentItem ==
    [][\A c \in Clients :
         ServedFromCache(c) =>
            /\ mtx[getEntry(client[c].message.startLine[2])] = Free
            /\ OneVersion(heap[client[c].cached])
            /\ client'[c].written[Len(client'[c].written)].message
                  = heap[client[c].cached].message
      ]_vars

\* C34 witness: the first client has been answered from the cache with the
\* header lines of the 304 response that the store_cache of the second is
\* storing, while the ResponseCacheInfo of the item is still that of the
\* 200 response.
C34_Witness ==
    /\ workload = "race"
    /\ client[1].pc = "write"
    /\ client[1].written # <<>>
    /\ client[1].written[Len(client[1].written)].kind = "cached"
    /\ \E i \in HeadersNamed(
                  client[1].written[Len(client[1].written)].message, "Etag") :
         client[1].written[Len(client[1].written)].message.headerLines[i].value
            = "e2"
    /\ remote[2].pc = "store_info"
    /\ \E s \in Slots :
         /\ cache[s].value # NULL
         /\ mtx[s] # Free
         /\ heap[cache[s].value].info.etag = "e1"
         /\ ~OneVersion(heap[cache[s].value])

\* C35: the bytes that a write_message call sends on the socket of a
\* connection are the serialization of the message passed to it, and
\* nothing that was read from the socket before.
C35_WritesOnlyMessage ==
    (workload = "parser" /\ parsing.pc = "written")
        => parsing.written = put_text(parsing.reply)

\* C35 witness: after a request with a bad header line the client is sent
\* the bytes that followed the line, and HTTP400 behind them.
C35_Witness ==
    /\ workload = "parser"
    /\ parsing.pc = "written"
    /\ parsing.sent.head = GetBadHeader
    /\ parsing.reply = HTTP400
    /\ parsing.written = "\r\nabc" \o put_text(HTTP400)
    /\ put_text(HTTP400)
         = "HTTP/1.1 400 Invalid Request\r\nContent-Length: 0\r\n\r\n"

\* The header lines of message have neither a Content-Length nor a
\* Transfer-Encoding.
NoFramingHeader(message) ==
    /\ HeadersNamed(message, "Content-Length") = {}
    /\ HeadersNamed(message, "Transfer-Encoding") = {}

\* C36: on a connection that is kept alive, a request with neither a
\* Content-Length nor a Transfer-Encoding header is in ACCEPT after the parse
\* step that reads the empty line, whatever request was read before it, so
\* no read for a body is armed for it.
C36_BodylessRequestAccepted ==
    [][(/\ EndOfHeadersStep
        /\ parsing.messages > 1
        /\ ~IsHttp(parsing.before.startLine[1])
        /\ ~IsHttp(parsing.message.startLine[1])
        /\ NoFramingHeader(parsing.message)) =>
           /\ parsing'.parser.state = "ACCEPT"
           /\ parsing'.pc = "done"
           /\ parsing'.armed = NotArmed]_vars

\* C36 witness: after a chunked POST has been read and answered on the
\* connection, the chunk header of a body is awaited for a GET whose head
\* has been read and which has no framing header.
C36_Witness ==
    /\ workload = "parser"
    /\ parsing.messages = 2
    /\ parsing.before = PostU1Chunked
    /\ parsing.sent.head = GetU1
    /\ parsing.message.startLine = GetU1.startLine
    /\ parsing.message.headerLines # <<>>
    /\ NoFramingHeader(parsing.message)
    /\ parsing.input = <<>>
    /\ parsing.parser.state = "BODY"
    /\ parsing.parser.format = "CHUNKED"
    /\ parsing.pc = "read_chunk_header"

\* C37: for each request read on a client connection write_message is
\* called on that connection at most once, whichever of the cached
\* response, the origin's response, 200 for a CONNECT, 400 and 502 it
\* writes, and never while a write on the connection has not completed.
C37_OneWritePerRequest ==
    [][\A c \in Clients :
         (client'[c].written # client[c].written /\ client'[c].written # <<>>)
            => /\ client[c].written = <<>>
               /\ client[c].pc # "write"
               /\ Len(client'[c].written) = 1
               /\ client'[c].pc = "write"]_vars

\* C37 witness: the second request of a connection is answered with 502
\* after an error of its remote connection, the first having been
\* answered, and that is the only message written for it.
C37_Witness ==
    /\ workload = "error"
    /\ \E c \in Clients :
         /\ client[c].id > 1
         /\ client[c].pc = "write"
         /\ client[c].written = << [kind |-> "canned", message |-> HTTP502] >>
         /\ remote[c].pc = "none"

\* The validators of the entry a request found in the cache, or none when
\* it found no entry.
FoundInfo(c) ==
    IF client[c].pc = "decide" /\ client[c].cached # NULL
    THEN heap[client[c].cached].info
    ELSE NoItem.info

\* C38: every If-None-Match and If-Modified-Since header line of a request
\* that is forwarded to the origin has the validator of the cached entry
\* the request found (its Etag, its Last-Modified date); a validator the
\* client sent is never forwarded, whether the entry has validators or not
\* and however often the client sent the header.
C38_OnlyCachedValidatorsForwarded ==
    [][\A c \in Clients :
         /\ (remote[c].pc = "none" /\ remote'[c].pc = "resolve")
              => LET ri == FoundInfo(c)
                     m == client'[c].message
                 IN  /\ \A i \in HeadersNamed(m, "If-None-Match") :
                            /\ ri.etag # ""
                            /\ m.headerLines[i].value = ri.etag
                     /\ \A i \in HeadersNamed(m, "If-Modified-Since") :
                            /\ ri.last_modified # None
                            /\ m.headerLines[i].value
                                 = put_date(ri.last_modified[1])
         /\ (remote[c].pc = "connect" /\ remote'[c].pc = "write")
              => remote'[c].sent = client[c].message]_vars

\* C38 witness: the request sent to the origin for a GET that found an
\* entry without validators to be validated has the If-None-Match and the
\* If-Modified-Since of the client.
C38_Witness ==
    /\ workload = "forward"
    /\ remote[1].pc = "write"
    /\ cache[getEntry(U1)].key = U1
    /\ cache[getEntry(U1)].value # NULL
    /\ heap[cache[getEntry(U1)].value].info.etag = ""
    /\ heap[cache[getEntry(U1)].value].info.last_modified = None
    /\ heap[cache[getEntry(U1)].value].info.no_cache
    /\ remote[1].sent.startLine = <<"GET", "/x", "HTTP/1.1">>
    /\ remote[1].sent.headerLines
         = << [key |-> "Host", value |-> "a"],
              [key |-> "If-None-Match", value |-> "v1"],
              [key |-> "If-Modified-Since",
               value |-> "Thu, 01 Jan 1970 00:00:01 GMT"] >>

\* The Accessors that exist: task t holds one from Construct to Destroy.
Holds(t) == task[t].pc \in {"held", "set"}

\* C7: at any moment at most one Accessor exists for a bucket, so two tasks
\* whose keys map to the same bucket never get or set it at the same time;
\* and a task can construct an Accessor whenever no Accessor exists for the
\* bucket of its key, whatever Accessors exist for other buckets.
C7_OneAccessorPerSlot ==
    /\ \A t, u \in Tasks :
          (t # u /\ Holds(t) /\ Holds(u))
            => getEntry(task[t].key) # getEntry(task[u].key)
    /\ \A i \in Slots :
          mtx[i] # Free
            => \E t \in Tasks :
                  Holds(t) /\ getEntry(task[t].key) = i /\ mtx[i] = <<t>>
    /\ \A t \in Tasks, key \in TestKeys :
          (task[t].pc = "idle"
             /\ \A u \in Tasks : Holds(u)
                   => getEntry(task[u].key) # getEntry(key))
            => ENABLED Construct(t, key)

\* Both tasks hold an Accessor, for different buckets, and one is in the
\* middle of a set.
C7_Witness ==
    /\ Holds(1) /\ Holds(2)
    /\ task[1].pc = "set"
    /\ getEntry(task[1].key) # getEntry(task[2].key)
    /\ hist.calls > 1

\* C8: what a get returns is the key and the value of one set call, and that
\* call is the last one whose Accessor released the bucket before the get,
\* or a later one.
C8_GetSeesLastReleasedSet ==
    \A t \in Tasks :
        task[t].result # NoResult
          => LET r == task[t].result
             IN  /\ r.value >= r.floor
                 /\ IF r.value = NULL THEN r.key = "" /\ r.floor = 0
                    ELSE /\ r.value \in DOMAIN hist.log
                         /\ hist.log[r.value] = r.key

\* A task got the pair another task set under another key of the same
\* bucket, after an earlier set was overwritten.
C8_Witness ==
    \E t \in Tasks :
        /\ task[t].result # NoResult
        /\ task[t].result.value > 1
        /\ task[t].result.key # task[t].key
        /\ task[t].result.key # hist.log[1]
        /\ task[t].result.floor = task[t].result.value

====
